---- MODULE Spec2Model ----
(***************************************************************************)
(* A model of the exploration core of eva-qa and of its collaborators:     *)
(*   - StateManager    (core/StateManager.ts): state identity and cache    *)
(*   - ActionDiscovery (core/ActionDiscovery.ts): discovery, priority,     *)
(*                     action kinds, grouping and form actions             *)
(*   - Explorer        (core/Explorer.ts): bounded breadth-first traversal *)
(*   - AccessibilityValidator (validators): the axe scan as issues         *)
(*   - SupabaseAdapter (adapters): connection state, snapshot comparison   *)
(* Each component has its own specification over the shared variables; a   *)
(* component that a specification does not exercise stays in its initial   *)
(* state.                                                                  *)
(***************************************************************************)
EXTENDS Integers, Sequences, FiniteSets, TLC

VARIABLES
    smOptions,    \* StateManager.options
    stateCache,   \* StateManager.stateCache : id -> AppState
    clock,        \* Date.now(), advanced by every captureState
    idLog,        \* observed computeStateId calls: [input, id, cached]
    captured,     \* ids captureState returned since the last clearCache
    lookup,       \* what the query made last returned, NoLookup once the
                  \* cache has been written since
    exConfig,     \* Explorer: the exploration caps of the run
    nodes,        \* Explorer: graph.nodes : state id -> discovery depth
    edges,        \* Explorer: graph.edges
    frontier,     \* Explorer: queue of unexpanded node ids
    pc,           \* Explorer: "idle", "expanding" or "done"
    cur,          \* Explorer: the node being expanded, NoNode when idle
    pending,      \* Explorer: actions of cur still to execute
    expandCount,  \* Explorer: how often each id was expanded (capped at 2)
    iterations,   \* Explorer: expansions counted against the iteration cap
    lastResult,   \* Explorer: outcome of the action executed last
    prInput,      \* the array handed to prioritizeActions
    prOutput,     \* the array prioritizeActions returned
    prCalled,     \* whether prioritizeActions has been called
    adOptions,    \* ActionDiscovery.options
    adPage,       \* the document discoverActions is run against
    adLog,        \* the discoverActions calls made: [additionalIgnore, output]
    atEl,         \* the element handed to getActionType
    atKind,       \* the action kind getActionType returned, Null before the call
    grInput,      \* the array handed to groupActions
    grGroups,     \* the record groupActions returned
    grCalled,     \* whether groupActions has been called
    faForms,      \* the form elements of the page getFormActions is run against
    faOutput,     \* the array getFormActions returned
    faCalled,     \* whether getFormActions has been called
    avConfig,     \* AccessibilityValidator.config
    avScan,       \* what building and running the axe scan does
    avResult,     \* what validate did: a returned result or a thrown error
    saClient,     \* SupabaseAdapter.client
    saAnonClient, \* SupabaseAdapter.anonClient
    saConfig,     \* SupabaseAdapter.config
    saConnected,  \* BaseAdapter.connected
    saLastSnapshot,\* SupabaseAdapter.lastSnapshot
    saArmed,      \* a connect has succeeded and no disconnect was made since
    saLast,       \* the verify or captureState call made last and its outcome
    csBefore,     \* the before argument of compareSnapshots
    csAfter,      \* the after argument of compareSnapshots
    csDiff,       \* the record compareSnapshots returned
    csCalled      \* whether compareSnapshots has been called

smVars == <<smOptions, stateCache, clock, idLog, captured, lookup>>
exVars == <<exConfig, nodes, edges, frontier, pc, cur, pending, expandCount,
            iterations, lastResult>>
prVars == <<prInput, prOutput, prCalled>>
adVars == <<adOptions, adPage, adLog>>
atVars == <<atEl, atKind>>
grVars == <<grInput, grGroups, grCalled>>
faVars == <<faForms, faOutput, faCalled>>
avVars == <<avConfig, avScan, avResult>>
saVars == <<saClient, saAnonClient, saConfig, saConnected, saLastSnapshot, saArmed, saLast>>
csVars == <<csBefore, csAfter, csDiff, csCalled>>
vars == <<smOptions, stateCache, clock, idLog, captured, lookup, exConfig, nodes, edges,
          frontier, pc, cur, pending, expandCount, iterations, lastResult,
          prInput, prOutput, prCalled, adOptions, adPage, adLog,
          atEl, atKind,
          grInput, grGroups, grCalled,
          faForms, faOutput, faCalled,
          avConfig, avScan, avResult,
          saClient, saAnonClient, saConfig, saConnected, saLastSnapshot, saArmed, saLast,
          csBefore, csAfter, csDiff, csCalled>>

\* what the operations of one component leave alone
notStateManager == <<exVars, prVars, adVars, atVars, grVars, faVars, avVars, saVars, csVars>>
notExplorer == <<smVars, prVars, adVars, atVars, grVars, faVars, avVars, saVars, csVars>>
notPrioritize == <<smVars, exVars, adVars, atVars, grVars, faVars, avVars, saVars, csVars>>
notActionType == <<smVars, exVars, prVars, adVars, grVars, faVars, avVars, saVars, csVars>>
notGroup == <<smVars, exVars, prVars, adVars, atVars, faVars, avVars, saVars, csVars>>
notFormActions == <<smVars, exVars, prVars, adVars, atVars, grVars, avVars, saVars, csVars>>
notValidator == <<smVars, exVars, prVars, adVars, atVars, grVars, faVars, saVars, csVars>>
notAdapter == <<smVars, exVars, prVars, adVars, atVars, grVars, faVars, avVars, csVars>>
notCompare == <<smVars, exVars, prVars, adVars, atVars, grVars, faVars, avVars, saVars>>
notDiscovery == <<smVars, exVars, prVars, atVars, grVars, faVars, avVars, saVars, csVars>>

----------------------------------------------------------------------------
(* JavaScript values of type string | null.                                 *)

Null == [t |-> "null"]
Undefined == [t |-> "undefined"]
JS(s) == [t |-> "string", s |-> s]

\* `v || ''` on a string | null value
OrEmpty(v) == IF v.t = "string" THEN v.s ELSE ""

\* `${v}` inside a template literal
Template(v) == IF v.t = "string" THEN v.s ELSE v.t

----------------------------------------------------------------------------
(* Bounds of the StateManager model.                                       *)

MaxLogged == 2      \* computeStateId calls kept for comparison
MaxCaptures == 1    \* captureState calls in one behaviour
MaxCached == 3      \* captureState calls in one behaviour of the cache
MaxCompared == 2    \* captureState calls in one behaviour that compares captures

----------------------------------------------------------------------------
(* StateManager                                                            *)

\* hash.digest('hex').slice(0, n): the digest is kept symbolic, a string
\* that names the algorithm and the hashed text, so that two digests are
\* equal exactly when the hashed texts are.
Sha256Hex16(text) == "sha256:" \o text
Md5Hex12(text) == "md5:" \o text

\* components.join('|')
JoinBar(components) ==
    components[1] \o "|" \o components[2] \o "|" \o components[3]
        \o "|" \o components[4]

\* options.customIdentity as used by the tests: state => `custom-${state.pathname}`
customIdentity(state) == "custom-" \o Template(state.pathname)

\* a plausible defect: the id is salted with the number of cached states
computeStateId_cacheSalted(state, options, cache) ==
    IF options.customIdentity
    THEN customIdentity(state)
    ELSE Sha256Hex16(JoinBar(<<OrEmpty(state.pathname),
                               OrEmpty(state.domFingerprint),
                               OrEmpty(state.modalOpen),
                               OrEmpty(state.viewport)>>)
                     \o (IF cache = {} THEN "" ELSE "|cached"))

\* a plausible defect: the viewport is left out of the hashed components
computeStateId_noViewport(state, options, cache) ==
    IF options.customIdentity
    THEN customIdentity(state)
    ELSE Sha256Hex16(JoinBar(<<OrEmpty(state.pathname),
                               OrEmpty(state.domFingerprint),
                               OrEmpty(state.modalOpen),
                               "">>))

computeStateId(state, options, cache) ==
    IF options.customIdentity
    THEN customIdentity(state)
    ELSE Sha256Hex16(JoinBar(<<OrEmpty(state.pathname),
                               OrEmpty(state.domFingerprint),
                               OrEmpty(state.modalOpen),
                               OrEmpty(state.viewport)>>))

\* The pages captureState is run against: what page.url(), page.title() and
\* the three page.evaluate calls return.
Urls ==
    {[pathname |-> "/", search |-> "", hash |-> ""],
     [pathname |-> "/settings", search |-> "?tab=1", hash |-> "#s1"]}

Pages ==
    [url : Urls,
     title : {"My App"},
     signatures : {"button|a"},
     modal : {Null, JS("confirm-dialog")},
     form : {Null}]

Viewports == {"desktop", "mobile"}

\* new URL(url).href for the parsed parts
Href(u) == "http://localhost:3000" \o u.pathname \o u.search \o u.hash

\* a plausible defect: the hash is appended whenever the URL has one
capturePathname_hashAlways(u, options) ==
    LET withSearch == IF options.includeQueryParams /\ u.search # ""
                      THEN u.pathname \o u.search ELSE u.pathname
    IN IF u.hash # ""
       THEN withSearch \o u.hash ELSE withSearch

\* captureState, lines 65-73
capturePathname(u, options) ==
    LET withSearch == IF options.includeQueryParams /\ u.search # ""
                      THEN u.pathname \o u.search ELSE u.pathname
    IN IF options.includeHash /\ u.hash # ""
       THEN withSearch \o u.hash ELSE withSearch

captureDomFingerprint(page) == Md5Hex12(page.signatures)

\* a plausible defect: the identity is taken from the full URL
IdentityOf_fullUrl(state) ==
    [pathname |-> JS(state.url),
     domFingerprint |-> JS(state.domFingerprint),
     modalOpen |-> state.modalOpen,
     viewport |-> JS(state.viewport)]

\* the identity-bearing part of a state as handed to computeStateId
IdentityOf(state) ==
    [pathname |-> JS(state.pathname),
     domFingerprint |-> JS(state.domFingerprint),
     modalOpen |-> state.modalOpen,
     viewport |-> JS(state.viewport)]

\* the adapters argument of captureState: absent or without a 'supabase'
\* entry, or holding a supabase adapter whose captureState rejects or
\* resolves with a database snapshot and an auth state
NoAdapters == [kind |-> "none"]
RejectingAdapter == [kind |-> "rejects"]
ResolvingAdapter(database, auth) ==
    [kind |-> "resolves", database |-> database, auth |-> auth]

\* captureState, lines 76-93: the backend state taken through the adapter
backendState(adapters) ==
    IF adapters.kind = "resolves"
    THEN [dbSnapshot |-> adapters.database, authState |-> adapters.auth]
    ELSE [dbSnapshot |-> Undefined, authState |-> Undefined]

buildState(page, viewport, adapters, options, now, cache) ==
    LET backend == backendState(adapters)
        s == [url |-> Href(page.url),
              pathname |-> capturePathname(page.url, options),
              title |-> page.title,
              domFingerprint |-> captureDomFingerprint(page),
              modalOpen |-> page.modal,
              formState |-> IF page.form = Null THEN Undefined ELSE page.form,
              dbSnapshot |-> backend.dbSnapshot,
              authState |-> backend.authState,
              viewport |-> viewport,
              timestamp |-> now]
    IN [id |-> computeStateId(IdentityOf(s), options, cache)] @@ s

\* a plausible defect: the cache keeps only the state captured last
MapSet_latestOnly(map, key, value) == [k \in {key} |-> value]

\* Map.set
MapSet(map, key, value) ==
    [k \in (DOMAIN map) \cup {key} |-> IF k = key THEN value ELSE map[k]]

EmptyMap == [k \in {} |-> 0]

\* no query result at hand
NoLookup == [op |-> "none"]

\* the inputs computeStateId is called with directly, the identity of a
\* captured state among them
IdInputs ==
    [pathname : {JS("/"), JS("/settings")},
     domFingerprint : {JS("abc123"), JS(Md5Hex12("button|a"))},
     modalOpen : {Null, JS(""), JS("confirm-dialog")},
     viewport : {JS("desktop"), JS("mobile")}]

\* a logged call keeps its input, the id returned and the number of states
\* that were cached when it was made
Log(input, id) ==
    IF Cardinality(idLog) < MaxLogged
    THEN idLog \cup {[input |-> input, id |-> id,
                      cached |-> Cardinality(DOMAIN stateCache)]}
    ELSE idLog

StateManagerInit ==
    /\ smOptions \in [includeQueryParams : {TRUE},
                      includeHash : {FALSE},
                      customIdentity : BOOLEAN]
    /\ stateCache = EmptyMap
    /\ clock = 0
    /\ idLog = {}
    /\ captured = {}
    /\ lookup = NoLookup

StateManagerUnused ==
    /\ smOptions = [includeQueryParams |-> TRUE, includeHash |-> FALSE,
                    customIdentity |-> FALSE]
    /\ stateCache = EmptyMap
    /\ clock = 0
    /\ idLog = {}
    /\ captured = {}
    /\ lookup = NoLookup

CaptureState(page, viewport, adapters) ==
    /\ LET state == buildState(page, viewport, adapters, smOptions, clock,
                               DOMAIN stateCache)
       IN /\ stateCache' = MapSet(stateCache, state.id, state)
          /\ idLog' = Log(IdentityOf(state), state.id)
          /\ captured' = captured \cup {state.id}
    /\ clock' = clock + 1
    /\ lookup' = NoLookup
    /\ UNCHANGED <<smOptions, notStateManager>>

ComputeStateId(input) ==
    /\ Cardinality(idLog) < MaxLogged
    /\ idLog' = Log(input, computeStateId(input, smOptions, DOMAIN stateCache))
    /\ UNCHANGED <<smOptions, stateCache, clock, captured, lookup, notStateManager>>

\* Map.clear
clear(map) == EmptyMap

ClearCache ==
    /\ stateCache # EmptyMap
    /\ stateCache' = clear(stateCache)
    /\ captured' = {}
    /\ lookup' = NoLookup
    /\ UNCHANGED <<smOptions, clock, idLog, notStateManager>>

\* Map.get, lines 316-318
getState(cache, id) == IF id \in DOMAIN cache THEN cache[id] ELSE Undefined

\* Array.from(map.values()), lines 323-325, as the set of its elements
getAllStates(cache) == {cache[k] : k \in DOMAIN cache}

\* getStats, lines 337-345
getStats(cache) ==
    [totalStates |-> Cardinality(DOMAIN cache),
     uniqueUrls |-> Cardinality({cache[k].pathname : k \in DOMAIN cache})]

GetState(id) ==
    /\ lookup' = [op |-> "getState", id |-> id, value |-> getState(stateCache, id)]
    /\ UNCHANGED <<smOptions, stateCache, clock, idLog, captured, notStateManager>>

GetAllStates ==
    /\ lookup' = [op |-> "getAllStates", value |-> getAllStates(stateCache)]
    /\ UNCHANGED <<smOptions, stateCache, clock, idLog, captured, notStateManager>>

GetStats ==
    /\ lookup' = [op |-> "getStats", value |-> getStats(stateCache)]
    /\ UNCHANGED <<smOptions, stateCache, clock, idLog, captured, notStateManager>>

----------------------------------------------------------------------------
(* captureState under every setting of the path options, on pages that     *)
(* differ in their URL and in what does not bear on identity.              *)

\* DEFAULT_OPTIONS; no customIdentity is configured
DEFAULT_OPTIONS ==
    [includeQueryParams |-> TRUE, includeHash |-> FALSE, customIdentity |-> FALSE]

\* the options handed to the constructor: each path option given or left out
GivenOptions ==
    UNION {[keys -> BOOLEAN] : keys \in SUBSET {"includeQueryParams", "includeHash"}}

\* constructor: { ...DEFAULT_OPTIONS, ...options }
mergeOptions(options) == options @@ DEFAULT_OPTIONS

CaptureUrls ==
    [pathname : {"/dashboard"},
     search : {"", "?tab=overview"},
     hash : {"", "#section1"}]

\* what captureFormState returns: null or the selector and fields of a form
FormSnapshots ==
    {Null, [selector |-> "#login", fields |-> [email |-> "a@example.com"]]}

CapturePages ==
    [url : CaptureUrls,
     title : {"My App", "Dashboard - My App"},
     signatures : {"button|a"},
     modal : {Null},
     form : FormSnapshots]

CaptureAdapters ==
    {NoAdapters,
     RejectingAdapter,
     ResolvingAdapter([tables |-> [users |-> [rowCount |-> 5]]],
                      [isAuthenticated |-> TRUE, userId |-> JS("user-1")])}

CaptureInit ==
    /\ \E given \in GivenOptions : smOptions = mergeOptions(given)
    /\ stateCache = EmptyMap
    /\ clock = 0
    /\ idLog = {}
    /\ captured = {}
    /\ lookup = NoLookup

----------------------------------------------------------------------------
(* Explorer: the bounded breadth-first traversal.                          *)

MaxAppStates == 3       \* distinct state ids the application can show
MaxStateCap == 3        \* largest configured state cap (maxStates)

\* configured depth caps (maxDepth) and per-state action caps
DepthCaps == {1, 2}
ActionCaps == {1, 2}

\* numbers of actions the catalog finds on a state
CatalogSizes == {0, 1, 2}

\* numbers of configured start URLs
StartUrlCounts == {1, 2}

\* configured expansion-iteration caps; 0 stands for none
IterationCaps == {0, 2}

StateIds == 1..MaxAppStates
NoNode == 0

Min(a, b) == IF a < b THEN a ELSE b

ExConfigs ==
    [maxStates : 1..MaxStateCap,
     maxDepth : DepthCaps,
     maxActionsPerState : ActionCaps,
     iterationCap : IterationCaps]

\* terminal conditions, checked before each expansion
terminal ==
    \/ frontier = <<>>
    \/ Cardinality(DOMAIN nodes) >= exConfig.maxStates
    \/ exConfig.iterationCap # 0 /\ iterations >= exConfig.iterationCap

\* index in the queue of the node with the lowest discovery depth, the
\* earliest enqueued among equals
lowestDepthIndex(queue, depthOf) ==
    CHOOSE i \in 1..Len(queue) :
        /\ \A j \in 1..Len(queue) : depthOf[queue[i]] <= depthOf[queue[j]]
        /\ \A j \in 1..(i - 1) : depthOf[queue[j]] > depthOf[queue[i]]

removeAt(queue, i) ==
    [j \in 1..(Len(queue) - 1) |-> IF j < i THEN queue[j] ELSE queue[j + 1]]

\* the actions taken from a node: up to the per-state cap, none when the
\* resulting node would exceed the maximum depth
selectActions(found, depth, config) ==
    IF depth + 1 > config.maxDepth
    THEN <<>>
    ELSE [a \in 1..Min(found, config.maxActionsPerState) |-> a]

childDepth_sameAsParent(parentDepth) == parentDepth

\* depth of a node created from a node at parentDepth
childDepth(parentDepth) == parentDepth + 1

\* a plausible defect: a node reached again takes the depth of the new path
recordNode_depthOverwritten(graphNodes, id, depth) == MapSet(graphNodes, id, depth)

\* the nodes after an action led to state id from a node at depth - 1: an
\* unseen id becomes a node at that depth, a seen one keeps its node
recordNode(graphNodes, id, depth) ==
    IF id \in DOMAIN graphNodes THEN graphNodes ELSE MapSet(graphNodes, id, depth)

enqueue_alsoSeen(queue, id, unseen, nodeCount, config) ==
    IF nodeCount < config.maxStates THEN Append(queue, id) ELSE queue

\* the frontier after an action led to state id: an unseen id is enqueued,
\* subject to the state cap; a seen id is not
enqueue(queue, id, unseen, nodeCount, config) ==
    IF unseen /\ nodeCount < config.maxStates THEN Append(queue, id) ELSE queue

failedEdge_toUnreached(from, action, target) ==
    [fromId |-> from, action |-> action, toId |-> target, failed |-> TRUE]

\* the edge recorded for an action that timed out or failed on its element:
\* no state was reached, the edge stays on the node it started from
failedEdge(from, action, target) ==
    [fromId |-> from, action |-> action, toId |-> from, failed |-> TRUE]

okEdge(from, action, to) ==
    [fromId |-> from, action |-> action, toId |-> to, failed |-> FALSE]

remainingAfterFailure_abort(selected) == <<>>

\* the candidate actions left to execute after the first of the selected
\* ones failed: the engine proceeds to the next candidate
remainingAfterFailure(selected) == Tail(selected)

NoResult == [kind |-> "none", id |-> NoNode]

ExplorerInit ==
    /\ exConfig \in ExConfigs
    /\ \E startUrls \in StartUrlCounts :
          /\ startUrls <= exConfig.maxStates
          /\ nodes = [r \in 1..startUrls |-> 0]
          /\ frontier = [r \in 1..startUrls |-> r]
    /\ edges = {}
    /\ pc = "idle"
    /\ cur = NoNode
    /\ pending = <<>>
    /\ expandCount = [id \in StateIds |-> 0]
    /\ iterations = 0
    /\ lastResult = NoResult

ExplorerUnused ==
    /\ exConfig = [maxStates |-> 1, maxDepth |-> 1, maxActionsPerState |-> 1,
                   iterationCap |-> 0]
    /\ nodes = EmptyMap
    /\ edges = {}
    /\ frontier = <<>>
    /\ pc = "idle"
    /\ cur = NoNode
    /\ pending = <<>>
    /\ expandCount = [id \in StateIds |-> 0]
    /\ iterations = 0
    /\ lastResult = NoResult

\* a terminal condition holds before the next expansion: the run ends
Terminate ==
    /\ pc = "idle"
    /\ terminal
    /\ pc' = "done"
    /\ UNCHANGED <<exConfig, nodes, edges, frontier, cur, pending,
                   expandCount, iterations, lastResult, notExplorer>>

\* steps 1-3: dequeue the node of lowest depth, run the action catalog on
\* it (found actions) and select the actions to execute
Expand(found) ==
    /\ pc = "idle"
    /\ ~terminal
    /\ LET i == lowestDepthIndex(frontier, nodes)
           node == frontier[i]
           selected == selectActions(found, nodes[node], exConfig)
       IN /\ frontier' = removeAt(frontier, i)
          /\ expandCount' =
                [expandCount EXCEPT ![node] = Min(expandCount[node] + 1, 2)]
          /\ pending' = selected
          /\ cur' = IF selected = <<>> THEN NoNode ELSE node
          /\ pc' = IF selected = <<>> THEN "idle" ELSE "expanding"
    /\ iterations' = IF exConfig.iterationCap # 0 THEN iterations + 1
                      ELSE iterations
    /\ lastResult' = NoResult
    /\ UNCHANGED <<exConfig, nodes, edges, notExplorer>>

\* steps 4-5 for one selected action whose execution succeeded and whose
\* captured state has the given id
ExecuteAction(id) ==
    /\ pc = "expanding"
    /\ pending # <<>>
    /\ LET action == Head(pending)
           unseen == id \notin DOMAIN nodes
           grown == recordNode(nodes, id, childDepth(nodes[cur]))
       IN /\ nodes' = grown
          /\ edges' = edges \cup {okEdge(cur, action, id)}
          /\ frontier' = enqueue(frontier, id, unseen,
                                 Cardinality(DOMAIN grown), exConfig)
          /\ lastResult' = [kind |-> "state", id |-> id]
    /\ pending' = Tail(pending)
    /\ cur' = IF Tail(pending) = <<>> THEN NoNode ELSE cur
    /\ pc' = IF Tail(pending) = <<>> THEN "idle" ELSE "expanding"
    /\ UNCHANGED <<exConfig, expandCount, iterations, notExplorer>>

\* step 4 for one selected action that timed out or failed on its element;
\* target is the state the action would have led to
ActionFails(target) ==
    /\ pc = "expanding"
    /\ pending # <<>>
    /\ edges' = edges \cup {failedEdge(cur, Head(pending), target)}
    /\ lastResult' = [kind |-> "failed", id |-> NoNode]
    /\ LET remaining == remainingAfterFailure(pending)
       IN /\ pending' = remaining
          /\ cur' = IF remaining = <<>> THEN NoNode ELSE cur
          /\ pc' = IF remaining = <<>> THEN "idle" ELSE "expanding"
    /\ UNCHANGED <<exConfig, nodes, frontier, expandCount, iterations,
                   notExplorer>>

----------------------------------------------------------------------------
(* Strings as the regular expressions of ActionDiscovery see them.         *)

UpperCase == "ABCDEFGHIJKLMNOPQRSTUVWXYZ"
LowerCase == "abcdefghijklmnopqrstuvwxyz"

\* the lower-case letter of every upper-case one
LowerOf ==
    [c \in {SubSeq(UpperCase, i, i) : i \in 1..Len(UpperCase)} |->
        LET i == CHOOSE i \in 1..Len(UpperCase) : SubSeq(UpperCase, i, i) = c
        IN SubSeq(LowerCase, i, i)]

LowerChar(c) == IF c \in DOMAIN LowerOf THEN LowerOf[c] ELSE c

\* String.prototype.toLowerCase, for ASCII text
RECURSIVE toLowerCase(_)
toLowerCase(s) ==
    IF s = "" THEN ""
    ELSE LowerChar(SubSeq(s, 1, 1)) \o toLowerCase(SubSeq(s, 2, Len(s)))

\* String.prototype.includes
includes(s, part) ==
    \E i \in 1..(Len(s) - Len(part) + 1) : SubSeq(s, i, i + Len(part) - 1) = part

\* /w1|w2|.../i.test(s) for lower-case literal alternatives
testAnyIgnoreCase(words, s) ==
    LET lower == toLowerCase(s) IN \E w \in words : includes(lower, w)

----------------------------------------------------------------------------
(* ActionDiscovery.prioritizeActions                                       *)

MaxListLen == 2     \* longest array handed to prioritizeActions

\* getPriority, in hundredths: zIndex / 100 becomes zIndex
getPriority(action) ==
    (IF action.tagName = "button" \/ action.tagName = "a" THEN 1000 ELSE 0)
    + (IF action.tagName \in {"input", "select", "textarea"} THEN 500 ELSE 0)
    + (IF includes(toLowerCase(action.label), "nav") THEN 800 ELSE 0)
    + (IF testAnyIgnoreCase({"submit", "save", "create", "add"}, action.label)
       THEN 1500 ELSE 0)
    - (IF action.destructive THEN 500 ELSE 0)
    + action.zIndex

\* a plausible defect: an element goes ahead of the ones it ties with
sortedBefore_tiesBehind(front, x) ==
    Cardinality({i \in 1..Len(front) : getPriority(front[i]) > getPriority(x)})

\* how many of the sorted elements stay ahead of x, which followed them in
\* the input: the ones compare does not put behind x (a stable sort)
sortedBefore(front, x) ==
    Cardinality({i \in 1..Len(front) : getPriority(front[i]) >= getPriority(x)})

\* Array.prototype.sort with compare(a, b) = getPriority(b) - getPriority(a):
\* descending, stable. Each element goes behind the last one that does not
\* rank below it.
RECURSIVE sortDescending(_)
sortDescending(list) ==
    IF list = <<>> THEN <<>>
    ELSE LET front == sortDescending(SubSeq(list, 1, Len(list) - 1))
             x == list[Len(list)]
             n == sortedBefore(front, x)
         IN SubSeq(front, 1, n) \o <<x>> \o SubSeq(front, n + 1, Len(front))

\* a plausible defect: destructive actions are filtered out
prioritizeActions_dropsDestructive(actions) ==
    sortDescending(SelectSeq(actions, LAMBDA a : ~a.destructive))

prioritizeActions(actions) == sortDescending(actions)

\* the array handed to prioritizeActions as it is after the call: the sort
\* works on the copy [...actions]
argumentAfterCall(actions) == actions

\* the DiscoveredAction fields prioritizeActions reads
PriorityActions ==
    [tagName : {"button", "input", "div"},
     label : {"Submit", "Delete", "Nav: Home"},
     destructive : BOOLEAN,
     zIndex : {0, 2500}]

RECURSIVE ListsUpTo(_, _)
ListsUpTo(S, n) ==
    IF n = 0 THEN {<<>>}
    ELSE LET shorter == ListsUpTo(S, n - 1)
         IN shorter \cup {Append(l, x) : l \in {k \in shorter : Len(k) = n - 1},
                                         x \in S}

PrioritizeInit ==
    /\ prInput \in ListsUpTo(PriorityActions, MaxListLen)
    /\ prOutput = <<>>
    /\ prCalled = FALSE

PrioritizeUnused ==
    /\ prInput = <<>>
    /\ prOutput = <<>>
    /\ prCalled = FALSE

PrioritizeActions ==
    /\ ~prCalled
    /\ prOutput' = prioritizeActions(prInput)
    /\ prCalled' = TRUE
    /\ UNCHANGED <<prInput, notPrioritize>>

----------------------------------------------------------------------------
(* The document: elements in document order. parent is the index of the    *)
(* parent element, 0 for a child of document.body. attrs maps the names of *)
(* the attributes that are present to their values.                        *)

MaxPageLen == 2     \* most elements on a page
MaxCalls == 2       \* discoverActions calls in one behaviour

Auto == [auto |-> TRUE, n |-> 0]
ZIndex(n) == [auto |-> FALSE, n |-> n]

\* window.innerWidth, window.innerHeight
Window == [innerWidth |-> 1280, innerHeight |-> 720]

Box(x, y, width, height) == [x |-> x, y |-> y, width |-> width, height |-> height]

Attrs1(n1, v1) == [n \in {n1} |-> v1]
Attrs2(n1, v1, n2, v2) == [n \in {n1, n2} |-> IF n = n1 THEN v1 ELSE v2]

Element(tag, attrs, text, box, zIndex) ==
    [tag |-> tag, attrs |-> attrs, text |-> text, box |-> box,
     rendered |-> TRUE, zIndex |-> zIndex]

\* the elements pages are built from
ElementKinds ==
    {Element("button", Attrs1("id", "submit"), "Submit", Box(10, 10, 80, 30), Auto),
     Element("button", Attrs1("disabled", ""), "Save", Box(100, 10, 80, 30), Auto),
     Element("div", Attrs2("role", "tab", "aria-disabled", "true"), "Tab",
             Box(200, 10, 80, 30), Auto),
     Element("a", Attrs2("href", "/logout", "id", "logout-btn"), "Logout",
             Box(300, 10, 80, 30), ZIndex(10)),
     Element("nav", Attrs1("class", "user-menu"), "", Box(0, 0, 1280, 60), Auto),
     Element("button", Attrs1("aria-hidden", "true"), "Close", Box(400, 10, 80, 30),
             Auto)}

\* the documents of n elements: every element is a child of the body or of
\* an earlier nav element
RECURSIVE PagesOfLen(_)
PagesOfLen(n) ==
    IF n = 0 THEN {<<>>}
    ELSE UNION {{Append(page, [parent |-> parent] @@ kind) :
                    kind \in ElementKinds,
                    parent \in {0} \cup {j \in 1..Len(page) : page[j].tag = "nav"}} :
                page \in PagesOfLen(n - 1)}

DiscoveryPages == UNION {PagesOfLen(n) : n \in 0..MaxPageLen}

\* el.getAttribute(name), el.hasAttribute(name)
getAttribute(el, name) ==
    IF name \in DOMAIN el.attrs THEN JS(el.attrs[name]) ELSE Null

hasAttribute(el, name) == name \in DOMAIN el.attrs

----------------------------------------------------------------------------
(* CSS selectors of the forms ActionDiscovery uses: a tag ("*" for any), *)
(* attributes that must be present (has), attribute values that must be    *)
(* equal (eq), and the same two under :not (notHas, notEq). "#x" is        *)
(* [id="x"] and ".x" is [class="x"] for the single-class elements here.    *)

Sel(tag, has, eq, notHas, notEq) ==
    [tag |-> tag, has |-> has, eq |-> eq, notHas |-> notHas, notEq |-> notEq]

DEFAULT_INTERACTIVE_SELECTORS ==
    <<Sel("button", {}, {}, {"disabled"}, {}),
      Sel("a", {"href"}, {}, {}, {<<"href", "">>}),
      Sel("input", {}, {}, {"disabled"}, {<<"type", "hidden">>}),
      Sel("select", {}, {}, {"disabled"}, {}),
      Sel("textarea", {}, {}, {"disabled"}, {}),
      Sel("*", {}, {<<"role", "button">>}, {}, {<<"aria-disabled", "true">>}),
      Sel("*", {}, {<<"role", "link">>}, {}, {}),
      Sel("*", {}, {<<"role", "tab">>}, {}, {}),
      Sel("*", {}, {<<"role", "menuitem">>}, {}, {}),
      Sel("*", {}, {<<"role", "checkbox">>}, {}, {}),
      Sel("*", {}, {<<"role", "radio">>}, {}, {}),
      Sel("*", {}, {<<"role", "switch">>}, {}, {}),
      Sel("*", {}, {<<"role", "combobox">>}, {}, {}),
      Sel("*", {}, {<<"role", "listbox">>}, {}, {}),
      Sel("*", {}, {<<"role", "option">>}, {}, {}),
      Sel("*", {"onclick"}, {}, {}, {}),
      Sel("*", {"tabindex"}, {}, {}, {<<"tabindex", "-1">>}),
      Sel("summary", {}, {}, {}, {}),
      Sel("label", {"for"}, {}, {}, {})>>

DEFAULT_IGNORE_SELECTORS ==
    <<Sel("*", {}, {<<"aria-hidden", "true">>}, {}, {}),
      Sel("*", {}, {<<"data-testid", "skip-exploration">>}, {}, {}),
      Sel("*", {"data-no-explore"}, {}, {}, {})>>

\* el.matches(selector)
matches(el, sel) ==
    /\ sel.tag = "*" \/ sel.tag = el.tag
    /\ \A name \in sel.has : hasAttribute(el, name)
    /\ \A pair \in sel.eq : getAttribute(el, pair[1]) = JS(pair[2])
    /\ \A name \in sel.notHas : ~hasAttribute(el, name)
    /\ \A pair \in sel.notEq : getAttribute(el, pair[1]) # JS(pair[2])

\* the indices of the element at index i and of its ancestors
RECURSIVE selfAndAncestors(_, _)
selfAndAncestors(page, i) ==
    IF i = 0 THEN {} ELSE {i} \cup selfAndAncestors(page, page[i].parent)

\* el.closest(selector) is not null
closest(page, i, sel) == \E j \in selfAndAncestors(page, i) : matches(page[j], sel)

\* shouldIgnore, lines 126-133
shouldIgnore(page, i, ignore) ==
    \E k \in 1..Len(ignore) :
        matches(page[i], ignore[k]) \/ closest(page, i, ignore[k])

\* isVisible, lines 99-112: rendered stands for an offsetParent (or fixed
\* position) and a style that is neither hidden nor fully transparent
isVisible(el) == el.rendered /\ el.box.width # 0 /\ el.box.height # 0

\* isInViewport, lines 115-123
isInViewport(el) ==
    /\ el.box.y < Window.innerHeight
    /\ el.box.y + el.box.height > 0
    /\ el.box.x < Window.innerWidth
    /\ el.box.x + el.box.width > 0

\* getLabel, lines 136-171 (no aria-labelledby target in these documents)
getLabel(el) ==
    IF hasAttribute(el, "aria-label") /\ el.attrs["aria-label"] # ""
        THEN el.attrs["aria-label"]
    ELSE IF hasAttribute(el, "title") /\ el.attrs["title"] # ""
        THEN el.attrs["title"]
    ELSE IF el.text # "" THEN el.text
    ELSE IF hasAttribute(el, "placeholder") /\ el.attrs["placeholder"] # ""
        THEN el.attrs["placeholder"]
    ELSE IF hasAttribute(el, "name") /\ el.attrs["name"] # ""
        THEN el.attrs["name"]
    ELSE IF hasAttribute(el, "id") /\ el.attrs["id"] # "" THEN el.attrs["id"]
    ELSE el.tag

\* CSS.escape: the identifiers in these documents are letters, digits and
\* '-' only, which CSS.escape returns unchanged
cssEscape(text) == text

\* the elements with the same tag name under the same parent, in order
sameTagSiblings(page, i) ==
    {j \in 1..Len(page) : page[j].parent = page[i].parent /\ page[j].tag = page[i].tag}

nthOfType(page, i) == Cardinality({j \in sameTagSiblings(page, i) : j <= i})

\* one segment of the path-based selector, lines 200-218
segment(page, i) ==
    [tag |-> page[i].tag,
     role |-> getAttribute(page[i], "role"),
     nth |-> IF Cardinality(sameTagSiblings(page, i)) > 1
             THEN nthOfType(page, i) ELSE 0]

segmentText(seg) ==
    seg.tag
    \o (IF seg.role # Null /\ seg.role.s # ""
        THEN "[role=\"" \o seg.role.s \o "\"]" ELSE "")
    \o (IF seg.nth > 0 THEN ":nth-of-type(" \o ToString(seg.nth) \o ")" ELSE "")

RECURSIVE joinChild(_)
joinChild(path) ==
    IF Len(path) = 1 THEN segmentText(path[1])
    ELSE segmentText(path[1]) \o " > " \o joinChild(Tail(path))

matchesSegment(page, i, seg) ==
    /\ page[i].tag = seg.tag
    /\ seg.role # Null /\ seg.role.s # "" => getAttribute(page[i], "role") = seg.role
    /\ seg.nth > 0 => nthOfType(page, i) = seg.nth

\* the element at index i matches the child-combinator path
RECURSIVE matchesPath(_, _, _)
matchesPath(page, i, path) ==
    /\ i # 0
    /\ matchesSegment(page, i, path[Len(path)])
    /\ Len(path) > 1 => matchesPath(page, page[i].parent, SubSeq(path, 1, Len(path) - 1))

\* document.querySelectorAll(path.join(' > ')).length
countPathMatches(page, path) ==
    Cardinality({j \in 1..Len(page) : matchesPath(page, j, path)})

\* the while loop of getSelector, lines 199-233: current is the element to
\* add next, path the segments collected so far
RECURSIVE buildPath(_, _, _)
buildPath(page, current, path) ==
    IF current = 0 THEN path
    ELSE LET longer == <<segment(page, current)>> \o path
         IN IF Len(longer) > 1 /\ countPathMatches(page, longer) = 1
            THEN longer
            ELSE buildPath(page, page[current].parent, longer)

\* getSelector, lines 174-236
getSelector(page, i) ==
    LET el == page[i]
    IN IF hasAttribute(el, "id") /\ el.attrs["id"] # ""
           THEN "#" \o cssEscape(el.attrs["id"])
       ELSE IF hasAttribute(el, "data-testid") /\ el.attrs["data-testid"] # ""
           THEN "[data-testid=\"" \o cssEscape(el.attrs["data-testid"]) \o "\"]"
       ELSE IF /\ hasAttribute(el, "aria-label") /\ el.attrs["aria-label"] # ""
               /\ Cardinality({j \in 1..Len(page) :
                     getAttribute(page[j], "aria-label") = JS(el.attrs["aria-label"])}) = 1
           THEN "[aria-label=\"" \o cssEscape(el.attrs["aria-label"]) \o "\"]"
       ELSE joinChild(buildPath(page, i, <<>>))

\* getActionType, lines 239-255
getActionType(el) ==
    LET type == getAttribute(el, "type")
        role == getAttribute(el, "role")
    IN IF el.tag = "input"
       THEN IF type = JS("checkbox") \/ role = JS("checkbox") THEN "check"
            ELSE IF type = JS("radio") \/ role = JS("radio") THEN "check"
            ELSE IF type = JS("file") THEN "upload"
            ELSE "fill"
       ELSE IF el.tag = "textarea" THEN "fill"
       ELSE IF el.tag = "select" \/ role = JS("combobox") \/ role = JS("listbox")
            THEN "select"
       ELSE "click"

\* /sign.?out/i.test(text)
testSignOut(text) ==
    LET t == toLowerCase(text)
    IN \/ includes(t, "signout")
       \/ \E i \in 1..(Len(t) - 7) :
             SubSeq(t, i, i + 3) = "sign" /\ SubSeq(t, i + 5, i + 7) = "out"

\* isDestructive, lines 258-273
isDestructive(el, label) ==
    LET text == label \o " " \o OrEmpty(getAttribute(el, "class"))
    IN \/ testAnyIgnoreCase({"delete", "remove", "destroy", "logout", "cancel",
                             "close", "discard", "clear"}, text)
       \/ testSignOut(text)

\* getZIndex, lines 276-286
RECURSIVE getZIndex(_, _)
getZIndex(page, i) ==
    IF i = 0 THEN 0
    ELSE IF ~page[i].zIndex.auto THEN page[i].zIndex.n
    ELSE getZIndex(page, page[i].parent)

\* selectors.join(','): the element matches one of the selectors
matchesAny(el, selectors) == \E k \in 1..Len(selectors) : matches(el, selectors[k])

\* the disabled marker, lines 304-306
isDisabled(el) ==
    hasAttribute(el, "disabled") \/ getAttribute(el, "aria-disabled") = JS("true")

\* the record pushed for an element, lines 324-340; el is the index of the
\* element, kept to tell which element an action was made from
discoveredAction(page, i) ==
    LET el == page[i]
        label == getLabel(el)
    IN [el |-> i,
        type |-> getActionType(el),
        selector |-> getSelector(page, i),
        label |-> label,
        tagName |-> el.tag,
        role |-> getAttribute(el, "role"),
        visible |-> isVisible(el) /\ isInViewport(el),
        enabled |-> ~isDisabled(el),
        destructive |-> isDestructive(el, label),
        boundingBox |-> el.box,
        zIndex |-> getZIndex(page, i)]

\* a plausible defect: the loop stops one element late
capReached_offByOne(discovered, maxActions) == Len(discovered) > maxActions

\* the break test of line 293
capReached(discovered, maxActions) == Len(discovered) >= maxActions

\* the for loop of lines 292-341 from element i on
RECURSIVE collect(_, _, _, _, _)
collect(page, i, discovered, ignore, options) ==
    IF i > Len(page) THEN discovered
    ELSE IF ~matchesAny(page[i], options.interactiveSelectors)
        THEN collect(page, i + 1, discovered, ignore, options)
    ELSE IF capReached(discovered, options.maxActions) THEN discovered
    ELSE IF \/ shouldIgnore(page, i, ignore)
            \/ ~options.includeDisabled /\ isDisabled(page[i])
            \/ ~(isVisible(page[i]) /\ isInViewport(page[i]))
            \/ page[i].box.width < options.minClickableSize
            \/ page[i].box.height < options.minClickableSize
            \/ \E k \in 1..Len(discovered) :
                  discovered[k].selector = getSelector(page, i)
        THEN collect(page, i + 1, discovered, ignore, options)
    ELSE collect(page, i + 1, Append(discovered, discoveredAction(page, i)),
                 ignore, options)

\* the comparator of lines 344-355, as "a goes before b"
Abs(n) == IF n < 0 THEN -n ELSE n

discoveredBefore(a, b) ==
    IF b.zIndex # a.zIndex THEN b.zIndex < a.zIndex
    ELSE IF Abs(a.boundingBox.y - b.boundingBox.y) > 50
         THEN a.boundingBox.y < b.boundingBox.y
    ELSE a.boundingBox.x < b.boundingBox.x

\* discovered.sort(...): stable; each element goes in front of the first one
\* it goes before
RECURSIVE sortDiscovered(_)
sortDiscovered(list) ==
    IF list = <<>> THEN <<>>
    ELSE LET front == sortDiscovered(SubSeq(list, 1, Len(list) - 1))
             x == list[Len(list)]
             n == Cardinality({i \in 1..Len(front) :
                     \A j \in 1..i : ~discoveredBefore(x, front[j])})
         IN SubSeq(front, 1, n) \o <<x>> \o SubSeq(front, n + 1, Len(front))

mergeIgnore_additionalOnly(instanceIgnore, additionalIgnore) == additionalIgnore

\* the ignore selectors of one call, lines 77-80
mergeIgnore(instanceIgnore, additionalIgnore) ==
    instanceIgnore \o additionalIgnore

\* a plausible defect: the selector is made from the rank of the action in
\* the returned list
discoverActions_selectorByRank(page, additionalIgnore, options) ==
    LET out == sortDiscovered(
                   collect(page, 1, <<>>,
                           mergeIgnore(options.ignoreSelectors, additionalIgnore),
                           options))
    IN [k \in 1..Len(out) |->
           [out[k] EXCEPT !.selector =
               out[k].tagName \o ":nth-match(" \o ToString(k) \o ")"]]

\* a plausible defect: every qualifying element is collected and sorted, and
\* the cap is applied to the sorted list
discoverActions_capAfterSort(page, additionalIgnore, options) ==
    LET all == sortDiscovered(
                   collect(page, 1, <<>>,
                           mergeIgnore(options.ignoreSelectors, additionalIgnore),
                           [options EXCEPT !.maxActions = Len(page) + 1]))
    IN SubSeq(all, 1, Min(Len(all), options.maxActions))

\* discoverActions, lines 73-374
discoverActions(page, additionalIgnore, options) ==
    sortDiscovered(
        collect(page, 1, <<>>,
                mergeIgnore(options.ignoreSelectors, additionalIgnore), options))

\* the constructor options, lines 52-68, with the defaults applied where
\* discoverActions applies them (lines 360-364)
DiscoveryOptions ==
    [interactiveSelectors : {DEFAULT_INTERACTIVE_SELECTORS},
     ignoreSelectors : {DEFAULT_IGNORE_SELECTORS},
     minClickableSize : {1},
     includeDisabled : BOOLEAN,
     maxActions : {1, 100}]

\* the additionalIgnore arguments of the calls: none, "#logout-btn" and
\* ".user-menu"
AdditionalIgnores ==
    {<<>>,
     <<Sel("*", {}, {<<"id", "logout-btn">>}, {}, {})>>,
     <<Sel("*", {}, {<<"class", "user-menu">>}, {}, {})>>}

DiscoveryInit ==
    /\ adOptions \in DiscoveryOptions
    /\ adPage \in DiscoveryPages
    /\ adLog = <<>>

DiscoveryUnused ==
    /\ adOptions = [interactiveSelectors |-> DEFAULT_INTERACTIVE_SELECTORS,
                    ignoreSelectors |-> DEFAULT_IGNORE_SELECTORS,
                    minClickableSize |-> 1,
                    includeDisabled |-> FALSE,
                    maxActions |-> 100]
    /\ adPage = <<>>
    /\ adLog = <<>>

DiscoverActions(additionalIgnore) ==
    /\ Len(adLog) < MaxCalls
    /\ adLog' = Append(adLog,
                       [additionalIgnore |-> additionalIgnore,
                        output |-> discoverActions(adPage, additionalIgnore,
                                                   adOptions)])
    /\ UNCHANGED <<adOptions, adPage, notDiscovery>>

\* prioritizeActions called with the array the latest discoverActions call
\* returned
PrioritizeDiscovered ==
    /\ ~prCalled
    /\ adLog # <<>>
    /\ LET actions == adLog[Len(adLog)].output
       IN /\ prOutput' = prioritizeActions(actions)
          /\ prInput' = argumentAfterCall(actions)
    /\ prCalled' = TRUE
    /\ UNCHANGED notPrioritize

----------------------------------------------------------------------------
(* getActionType on its own: the elements discoverActions classifies, by   *)
(* tag, type attribute and role.                                           *)

TypeTags == {"input", "textarea", "select", "button", "div"}
TypeAttrs == {"text", "email", "checkbox", "radio", "file", "submit", "range"}
RoleAttrs == {"checkbox", "radio", "combobox", "listbox", "button"}

\* the attributes of an element with the given optional type and role
typeRoleAttrs(type, role) ==
    [n \in (IF type = Null THEN {} ELSE {"type"})
           \cup (IF role = Null THEN {} ELSE {"role"}) |->
        IF n = "type" THEN type.s ELSE role.s]

\* the elements the default interactive selectors return
TypedElements ==
    {el \in {Element(tag, typeRoleAttrs(type, role), "", Box(10, 10, 80, 30), Auto) :
                tag \in TypeTags,
                type \in {Null} \cup {JS(t) : t \in TypeAttrs},
                role \in {Null} \cup {JS(r) : r \in RoleAttrs}} :
        matchesAny(el, DEFAULT_INTERACTIVE_SELECTORS)}

ActionTypeInit ==
    /\ atEl \in TypedElements
    /\ atKind = Null

ActionTypeUnused ==
    /\ atEl = Element("button", <<>>, "", Box(10, 10, 80, 30), Auto)
    /\ atKind = Null

GetActionType ==
    /\ atKind = Null
    /\ atKind' = JS(getActionType(atEl))
    /\ UNCHANGED <<atEl, notActionType>>

----------------------------------------------------------------------------
(* ActionDiscovery.groupActions                                            *)

GroupNames == {"navigation", "form", "modal", "destructive", "other"}

\* a plausible defect: the navigation test comes before the destructive one
groupOf_navigationFirst(action) ==
    IF action.tagName = "a"
       \/ testAnyIgnoreCase({"nav", "menu", "sidebar"}, action.selector)
        THEN "navigation"
    ELSE IF action.destructive THEN "destructive"
    ELSE IF action.tagName \in {"input", "select", "textarea"}
            \/ testAnyIgnoreCase({"form", "input", "field"}, action.selector)
        THEN "form"
    ELSE IF testAnyIgnoreCase({"modal", "dialog", "popup"}, action.selector)
        THEN "modal"
    ELSE "other"

\* the if / else-if chain of lines 495-511: the group one action is pushed to
groupOf(action) ==
    IF action.destructive THEN "destructive"
    ELSE IF action.tagName = "a"
            \/ testAnyIgnoreCase({"nav", "menu", "sidebar"}, action.selector)
        THEN "navigation"
    ELSE IF action.tagName \in {"input", "select", "textarea"}
            \/ testAnyIgnoreCase({"form", "input", "field"}, action.selector)
        THEN "form"
    ELSE IF testAnyIgnoreCase({"modal", "dialog", "popup"}, action.selector)
        THEN "modal"
    ELSE "other"

\* the actions of list pushed to group g, in list order
RECURSIVE pushedTo(_, _)
pushedTo(list, g) ==
    IF list = <<>> THEN <<>>
    ELSE IF groupOf(list[1]) = g
        THEN <<list[1]>> \o pushedTo(SubSeq(list, 2, Len(list)), g)
    ELSE pushedTo(SubSeq(list, 2, Len(list)), g)

\* groupActions, lines 481-513
groupActions(actions) == [g \in GroupNames |-> pushedTo(actions, g)]

GroupedActions ==
    [tagName : {"a", "input", "button"},
     selector : {"#other-btn", "#Main-Menu", "[data-modal=\"confirm\"]"},
     destructive : BOOLEAN]

NoGroups == [g \in GroupNames |-> <<>>]

GroupInit ==
    /\ grInput \in ListsUpTo(GroupedActions, MaxListLen)
    /\ grGroups = NoGroups
    /\ grCalled = FALSE

GroupUnused ==
    /\ grInput = <<>>
    /\ grGroups = NoGroups
    /\ grCalled = FALSE

GroupActions ==
    /\ ~grCalled
    /\ grGroups' = groupActions(grInput)
    /\ grCalled' = TRUE
    /\ UNCHANGED <<grInput, notGroup>>

----------------------------------------------------------------------------
(* ActionDiscovery.getFormActions. A form is its visibility and the        *)
(* controls inside it in document order.                                   *)

MaxForms == 2       \* most form elements on a page

Control(tag, attrs, innerText) == [tag |-> tag, attrs |-> attrs, innerText |-> innerText]

ControlKinds ==
    {Control("button", Attrs2("type", "submit", "id", "save"), "Save"),
     Control("input", Attrs1("type", "submit"), ""),
     Control("button", Attrs1("aria-label", "Send message"), " Go "),
     Control("button", Attrs1("type", "button"), "Cancel")}

\* the controls of one form: none, one or two
ControlLists ==
    {<<>>} \cup {<<c>> : c \in ControlKinds}
           \cup {<<c, d>> : c \in ControlKinds, d \in ControlKinds}

Forms == [visible : BOOLEAN, controls : ControlLists]

\* 'button[type="submit"], input[type="submit"], button:not([type])'
isSubmitControl(c) ==
    \/ c.tag = "button" /\ getAttribute(c, "type") = JS("submit")
    \/ c.tag = "input" /\ getAttribute(c, "type") = JS("submit")
    \/ c.tag = "button" /\ ~hasAttribute(c, "type")

\* form.locator(...): the matching controls in document order
submitButton(form) == SelectSeq(form.controls, isSubmitControl)

\* a plausible defect: the control matched last is taken
first_lastMatch(matched) == matched[Len(matched)]

\* locator.first()
first(matched) == matched[1]

\* String.prototype.trim
RECURSIVE trimStart(_)
trimStart(text) ==
    IF text # "" /\ SubSeq(text, 1, 1) = " "
    THEN trimStart(SubSeq(text, 2, Len(text))) ELSE text

RECURSIVE trimEnd(_)
trimEnd(text) ==
    IF text # "" /\ SubSeq(text, Len(text), Len(text)) = " "
    THEN trimEnd(SubSeq(text, 1, Len(text) - 1)) ELSE text

trim(text) == trimEnd(trimStart(text))

\* getLocatorSelector, lines 415-433
getLocatorSelector(c) ==
    IF OrEmpty(getAttribute(c, "id")) # "" THEN "#" \o c.attrs["id"]
    ELSE IF OrEmpty(getAttribute(c, "data-testid")) # ""
        THEN "[data-testid=\"" \o c.attrs["data-testid"] \o "\"]"
    ELSE c.tag
         \o (IF OrEmpty(getAttribute(c, "type")) # ""
             THEN "[type=\"" \o c.attrs["type"] \o "\"]" ELSE "")
         \o (IF OrEmpty(getAttribute(c, "role")) # ""
             THEN "[role=\"" \o c.attrs["role"] \o "\"]" ELSE "")

\* the label of lines 397-400
submitLabel(button) ==
    IF OrEmpty(getAttribute(button, "aria-label")) # ""
        THEN button.attrs["aria-label"]
    ELSE IF trim(button.innerText) # "" THEN trim(button.innerText)
    ELSE "Submit"

\* a plausible defect: the visibility test is left out
formIsListed_hiddenToo(form) == Len(submitButton(form)) > 0

\* the tests of lines 386-387 and 395: the form gets an action
formIsListed(form) == form.visible /\ Len(submitButton(form)) > 0

\* the action pushed for a form, lines 396-406; form is the index of the
\* form it was made for
formAction(forms, i) ==
    LET button == first(submitButton(forms[i]))
    IN [form |-> i,
        type |-> "click",
        selector |-> getLocatorSelector(button),
        label |-> "Submit form: " \o submitLabel(button)]

\* the loop of lines 385-408 from form i on
RECURSIVE formActionsFrom(_, _)
formActionsFrom(forms, i) ==
    IF i > Len(forms) THEN <<>>
    ELSE IF formIsListed(forms[i])
        THEN <<formAction(forms, i)>> \o formActionsFrom(forms, i + 1)
    ELSE formActionsFrom(forms, i + 1)

\* getFormActions, lines 379-411
getFormActions(forms) == formActionsFrom(forms, 1)

FormActionsInit ==
    /\ faForms \in ListsUpTo(Forms, MaxForms)
    /\ faOutput = <<>>
    /\ faCalled = FALSE

FormActionsUnused ==
    /\ faForms = <<>>
    /\ faOutput = <<>>
    /\ faCalled = FALSE

GetFormActions ==
    /\ ~faCalled
    /\ faOutput' = getFormActions(faForms)
    /\ faCalled' = TRUE
    /\ UNCHANGED <<faForms, notFormActions>>

----------------------------------------------------------------------------
(* AccessibilityValidator.validate                                         *)

MaxViolations == 2      \* most violations in one scan result

SEVERITY_ORDER == <<"critical", "serious", "moderate", "minor">>

\* Array.prototype.indexOf, 0-based, -1 when absent
indexOf(list, x) ==
    IF \E i \in 1..Len(list) : list[i] = x
    THEN (CHOOSE i \in 1..Len(list) :
              list[i] = x /\ \A j \in 1..(i - 1) : list[j] # x) - 1
    ELSE -1

\* IMPACT_TO_SEVERITY[violation.impact || 'minor'] || 'minor'
impactToSeverity(impact) ==
    LET key == IF OrEmpty(impact) = "" THEN "minor" ELSE impact.s
    IN IF key \in {"critical", "serious", "moderate", "minor"} THEN key ELSE "minor"

\* what axe reports: violations with an id and an impact, incomplete checks
\* with an id
Violations == [id : {"color-contrast", "label"},
               impact : {JS("critical"), JS("serious"), JS("moderate"),
                         JS("minor"), Null}]

Incompletes == [id : {"needs-review"}]

\* the errors a failing scan throws
ScanErrors == {[message |-> "Scan failed"]}

\* the scan: the builder cannot be built, analyze() rejects, or analyze()
\* resolves with results
Scans ==
    [kind : {"build-throws", "analyze-throws"}, error : ScanErrors]
    \cup [kind : {"results"},
          violations : ListsUpTo(Violations, MaxViolations),
          incomplete : ListsUpTo(Incompletes, 1)]

ValidatorConfigs ==
    [enabled : BOOLEAN,
     ignoredRules : {<<>>, <<"label">>},
     minSeverity : {"critical", "serious", "moderate", "minor"}]

\* the issue built from a violation, lines 101-120
violationIssue(violation, viewport) ==
    [type |-> "accessibility",
     severity |-> impactToSeverity(violation.impact),
     rule |-> violation.id,
     viewport |-> viewport]

\* the tests of lines 89-99: the violation is skipped
skipsViolation(violation, config) ==
    \/ \E i \in 1..Len(config.ignoredRules) : config.ignoredRules[i] = violation.id
    \/ indexOf(SEVERITY_ORDER, impactToSeverity(violation.impact))
           > indexOf(SEVERITY_ORDER, config.minSeverity)

\* the loop of lines 87-123
RECURSIVE violationIssues(_, _, _)
violationIssues(violations, config, viewport) ==
    IF violations = <<>> THEN <<>>
    ELSE (IF skipsViolation(violations[1], config) THEN <<>>
          ELSE <<violationIssue(violations[1], viewport)>>)
         \o violationIssues(SubSeq(violations, 2, Len(violations)), config, viewport)

\* the issue built from an incomplete check, lines 128-141
incompleteIssue(incomplete, viewport) ==
    [type |-> "accessibility",
     severity |-> "minor",
     rule |-> incomplete.id \o "-incomplete",
     viewport |-> viewport]

\* the loop of lines 126-144
incompleteIssues(incompletes, viewport) ==
    [i \in 1..Len(incompletes) |-> incompleteIssue(incompletes[i], viewport)]

\* the issue pushed by the catch block, lines 147-154
scanErrorIssue(err, viewport) ==
    [type |-> "accessibility",
     severity |-> "moderate",
     rule |-> "scan-error",
     description |-> "Accessibility scan failed: " \o err.message,
     viewport |-> viewport]

Returned(issues) == [threw |-> FALSE, validator |-> "accessibility", issues |-> issues]
Thrown(err) == [threw |-> TRUE, error |-> err]

\* a plausible defect: the builder is made before the try block is entered
validate_buildOutsideTry(config, scan, viewport) ==
    IF ~config.enabled THEN Returned(<<>>)
    ELSE IF scan.kind = "build-throws" THEN Thrown(scan.error)
    ELSE IF scan.kind = "analyze-throws"
        THEN Returned(<<scanErrorIssue(scan.error, viewport)>>)
    ELSE Returned(violationIssues(scan.violations, config, viewport)
                  \o incompleteIssues(scan.incomplete, viewport))

\* validate, lines 55-164
validate(config, scan, viewport) ==
    IF ~config.enabled THEN Returned(<<>>)
    ELSE IF scan.kind \in {"build-throws", "analyze-throws"}
        THEN Returned(<<scanErrorIssue(scan.error, viewport)>>)
    ELSE Returned(violationIssues(scan.violations, config, viewport)
                  \o incompleteIssues(scan.incomplete, viewport))

NotValidated == [threw |-> FALSE, validator |-> "none", issues |-> <<>>]

ValidatorInit ==
    /\ avConfig \in ValidatorConfigs
    /\ avScan \in Scans
    /\ avResult = NotValidated

ValidatorUnused ==
    /\ avConfig = [enabled |-> TRUE, ignoredRules |-> <<>>, minSeverity |-> "minor"]
    /\ avScan = [kind |-> "results", violations |-> <<>>, incomplete |-> <<>>]
    /\ avResult = NotValidated

Validate(viewport) ==
    /\ avResult = NotValidated
    /\ avResult' = validate(avConfig, avScan, viewport)
    /\ UNCHANGED <<avConfig, avScan, notValidator>>

----------------------------------------------------------------------------
(* SupabaseAdapter: connect, disconnect, verify and captureState. The      *)
(* backend is what the Supabase client answers.                            *)

AdapterConfigs ==
    [url : {"", "https://project.supabase.co"},
     serviceKey : {"service-key"},
     anonKey : {Null, JS("anon-key")}]

\* createClient(url, key); it throws when the url is empty
createClient(url, key) == [url |-> url, key |-> key]
createClientThrows(url) == url = ""

\* the answers of the connection test of line 1315: no error, an error for
\* the missing test table, any other error
ConnectionTests ==
    {Null, JS("relation \"_test_connection\" does not exist"), JS("fetch failed")}

\* the test of line 1317: the connection test counts as failed
connectionFailed(error) == error # Null /\ ~includes(error.s, "does not exist")

\* BaseAdapter.failure, BaseAdapter.success, BaseAdapter.error
failure(message) == [passed |-> FALSE, message |-> message, type |-> "service"]
success(message) == [passed |-> TRUE, message |-> message, type |-> "service"]
error(message) == [passed |-> FALSE, message |-> "Adapter error: " \o message,
                   type |-> "service"]

\* the actions verify is called with: five of the switch cases and one
\* action the switch does not know
VerifyActions ==
    {"rowCount", "rowExists", "rowNotExists", "rlsBlocks", "rlsAllows", "dropTable"}

\* what the query of a verification is answered with: rows (their number),
\* a database error, or a rejected promise. The verifications are called
\* with expects = { table: 'users', count: 1, operation: 'select' }.
Verifications ==
    {[kind |-> "rows", rows |-> 0],
     [kind |-> "rows", rows |-> 1],
     [kind |-> "error", message |-> "permission denied"],
     [kind |-> "throws", message |-> "fetch failed"]}

\* a verifyX helper whose promise rejects, and the test for it
Rejects(message) == [rejects |-> message]
rejected(result) == "passed" \notin DOMAIN result

\* verifyRowCount, lines 1580-1613
verifyRowCount(answer) ==
    IF answer.kind = "throws" THEN Rejects(answer.message)
    ELSE IF answer.kind = "error"
        THEN failure("Database error: " \o answer.message)
    ELSE IF answer.rows = 1 THEN success("Table users has 1 rows")
    ELSE failure("Expected 1 rows in users, found " \o ToString(answer.rows))

\* verifyRowExists, lines 1615-1640
verifyRowExists(answer) ==
    IF answer.kind = "throws" THEN Rejects(answer.message)
    ELSE IF answer.kind = "error"
        THEN failure("Database error: " \o answer.message)
    ELSE IF answer.rows > 0 THEN success("Row exists in users")
    ELSE failure("Row not found in users")

\* { ...result, passed: !result.passed, message: ... } of lines 1647-1653
\* and 1746-1752
inverted(result, whenPassed, whenFailed) ==
    IF rejected(result) THEN result
    ELSE [result EXCEPT !.passed = ~result.passed,
                        !.message = IF result.passed THEN whenPassed ELSE whenFailed]

\* verifyRowNotExists, lines 1642-1654
verifyRowNotExists(answer) ==
    inverted(verifyRowExists(answer),
             "Row unexpectedly exists in users",
             "Row correctly does not exist in users")

\* verifyRlsBlocks, lines 1656-1739, for the select operation
verifyRlsBlocks(anonClient, answer) ==
    IF anonClient = Null THEN failure("Anon client not configured for RLS testing")
    ELSE IF answer.kind = "throws" THEN success("RLS blocked select on users")
    ELSE IF answer.kind = "rows" /\ answer.rows = 0
        THEN success("RLS filtered all rows from users")
    ELSE IF answer.kind = "error"
        THEN success("RLS correctly blocked select on users")
    ELSE failure("RLS did not block select on users")

\* verifyRlsAllows, lines 1741-1753
verifyRlsAllows(anonClient, answer) ==
    inverted(verifyRlsBlocks(anonClient, answer),
             "RLS unexpectedly blocked operation on users",
             "RLS correctly allows operation on users")

\* verify, lines 1362-1429
verify(client, anonClient, action, answer) ==
    IF client = Null THEN failure("Supabase adapter not connected")
    ELSE LET result ==
                 CASE action = "rowCount" -> verifyRowCount(answer)
                   [] action = "rowExists" -> verifyRowExists(answer)
                   [] action = "rowNotExists" -> verifyRowNotExists(answer)
                   [] action = "rlsBlocks" -> verifyRlsBlocks(anonClient, answer)
                   [] action = "rlsAllows" -> verifyRlsAllows(anonClient, answer)
                   [] OTHER -> failure("Unknown Supabase action: " \o action)
         IN IF rejected(result) THEN error(result.rejects)
            ELSE [result EXCEPT !.type = "database"]

\* the snapshots the backend hands to captureState
BackendSnapshots == {[users |-> 1], [users |-> 2]}

NoCall == [op |-> "none"]

AdapterInit ==
    /\ saClient = Null
    /\ saAnonClient = Null
    /\ saConfig = Null
    /\ saConnected = FALSE
    /\ saLastSnapshot = Null
    /\ saArmed = FALSE
    /\ saLast = NoCall

AdapterUnused == AdapterInit

\* connect with a url createClient accepts and a passing connection test
ConnectSucceeds(config, test) ==
    /\ ~createClientThrows(config.url)
    /\ ~connectionFailed(test)
    /\ saConfig' = config
    /\ saClient' = createClient(config.url, config.serviceKey)
    /\ saAnonClient' = IF OrEmpty(config.anonKey) # ""
                       THEN createClient(config.url, config.anonKey.s)
                       ELSE saAnonClient
    /\ saConnected' = TRUE
    /\ saArmed' = TRUE
    /\ UNCHANGED <<saLastSnapshot, saLast, notAdapter>>

\* connect rejects: createClient throws (line 1302), or the connection test
\* fails (line 1318)
ConnectFails(config, test) ==
    /\ createClientThrows(config.url) \/ connectionFailed(test)
    /\ saConfig' = config
    /\ saClient' = IF createClientThrows(config.url) THEN saClient
                   ELSE createClient(config.url, config.serviceKey)
    /\ saAnonClient' = IF ~createClientThrows(config.url) /\ OrEmpty(config.anonKey) # ""
                       THEN createClient(config.url, config.anonKey.s)
                       ELSE saAnonClient
    /\ UNCHANGED <<saConnected, saArmed, saLastSnapshot, saLast, notAdapter>>

Disconnect ==
    /\ saClient' = Null
    /\ saAnonClient' = Null
    /\ saConfig' = Null
    /\ saLastSnapshot' = Null
    /\ saConnected' = FALSE
    /\ saArmed' = FALSE
    /\ UNCHANGED <<saLast, notAdapter>>

Verify(action, answer) ==
    /\ saLast' = [op |-> "verify", connected |-> saConnected,
                  action |-> action, answer |-> answer,
                  anonClient |-> saAnonClient,
                  result |-> verify(saClient, saAnonClient, action, answer)]
    /\ UNCHANGED <<saClient, saAnonClient, saConfig, saConnected, saLastSnapshot,
                   saArmed, notAdapter>>

\* captureState, lines 1324-1360: rejects without a client, else resolves
\* with the snapshot of the backend
AdapterCaptureState(snapshot) ==
    /\ IF saClient = Null
       THEN /\ saLast' = [op |-> "captureState", connected |-> saConnected,
                          rejected |-> TRUE,
                          message |-> "Supabase adapter not connected"]
            /\ UNCHANGED saLastSnapshot
       ELSE /\ saLast' = [op |-> "captureState", connected |-> saConnected,
                          rejected |-> FALSE, message |-> ""]
            /\ saLastSnapshot' = snapshot
    /\ UNCHANGED <<saClient, saAnonClient, saConfig, saConnected, saArmed, notAdapter>>

----------------------------------------------------------------------------
(* SupabaseAdapter.compareSnapshots. A snapshot's tables map the names of  *)
(* the tables it holds to their row counts.                                *)

TableNames == {"users", "posts"}
RowCounts == {0, 5, 10}

\* DatabaseSnapshot: { tables: { name: { rowCount } } }
Snapshots ==
    UNION {[tables : [held -> [rowCount : RowCounts]]] : held \in SUBSET TableNames}

\* snapshot.tables[table]?.rowCount || 0
rowCountOrZero(snapshot, table) ==
    IF table \in DOMAIN snapshot.tables /\ snapshot.tables[table].rowCount # 0
    THEN snapshot.tables[table].rowCount
    ELSE 0

\* a plausible defect: only the tables of the before snapshot are visited
allTables_beforeOnly(before, after) == DOMAIN before.tables

\* the set of lines 1885-1888
allTables(before, after) == DOMAIN before.tables \cup DOMAIN after.tables

\* compareSnapshots, lines 1879-1904
compareSnapshots(before, after) ==
    [table \in {t \in allTables(before, after) :
                   rowCountOrZero(before, t) # rowCountOrZero(after, t)} |->
        [before |-> rowCountOrZero(before, table),
         after |-> rowCountOrZero(after, table),
         diff |-> rowCountOrZero(after, table) - rowCountOrZero(before, table)]]

CompareInit ==
    /\ csBefore \in Snapshots
    /\ csAfter \in Snapshots
    /\ csDiff = EmptyMap
    /\ csCalled = FALSE

CompareUnused ==
    /\ csBefore = [tables |-> EmptyMap]
    /\ csAfter = [tables |-> EmptyMap]
    /\ csDiff = EmptyMap
    /\ csCalled = FALSE

CompareSnapshots ==
    /\ ~csCalled
    /\ csDiff' = compareSnapshots(csBefore, csAfter)
    /\ csCalled' = TRUE
    /\ UNCHANGED <<csBefore, csAfter, notCompare>>

----------------------------------------------------------------------------
(* Specifications                                                          *)

InitStateManager == StateManagerInit /\ ExplorerUnused /\ PrioritizeUnused
    /\ DiscoveryUnused
    /\ ActionTypeUnused
    /\ GroupUnused
    /\ FormActionsUnused
    /\ ValidatorUnused
    /\ AdapterUnused
    /\ CompareUnused

NextStateManager ==
    \/ /\ clock < MaxCaptures
       /\ \E page \in Pages, viewport \in Viewports :
             CaptureState(page, viewport, NoAdapters)
    \/ \E input \in IdInputs : ComputeStateId(input)
    \/ ClearCache

SpecStateManager == InitStateManager /\ [][NextStateManager]_vars

\* the cache under every operation of the class: captures of pages without
\* an overlay, one computeStateId input, and the three queries
CachePages == {page \in Pages : page.modal = Null}

CacheIdInputs ==
    {input \in IdInputs :
        /\ input.pathname = JS("/")
        /\ input.domFingerprint = JS("abc123")
        /\ input.modalOpen = Null
        /\ input.viewport = JS("desktop")}

QueriedIds == captured \cup DOMAIN stateCache \cup {"non-existent-id"}

NextStateCache ==
    \/ /\ clock < MaxCached
       /\ \E page \in CachePages, viewport \in Viewports :
             CaptureState(page, viewport, NoAdapters)
    \/ \E input \in CacheIdInputs : ComputeStateId(input)
    \/ ClearCache
    \/ \E id \in QueriedIds : GetState(id)
    \/ GetAllStates
    \/ GetStats

SpecStateCache == InitStateManager /\ [][NextStateCache]_vars

InitCapture == CaptureInit /\ ExplorerUnused /\ PrioritizeUnused
    /\ DiscoveryUnused
    /\ ActionTypeUnused
    /\ GroupUnused
    /\ FormActionsUnused
    /\ ValidatorUnused
    /\ AdapterUnused
    /\ CompareUnused

NextCapture ==
    /\ clock < MaxCompared
    /\ \E page \in CapturePages, adapters \in CaptureAdapters :
          CaptureState(page, "desktop", adapters)

SpecCapture == InitCapture /\ [][NextCapture]_vars

InitExplorer == ExplorerInit /\ StateManagerUnused /\ PrioritizeUnused
    /\ DiscoveryUnused
    /\ ActionTypeUnused
    /\ GroupUnused
    /\ FormActionsUnused
    /\ ValidatorUnused
    /\ AdapterUnused
    /\ CompareUnused

NextExplorer ==
    \/ Terminate
    \/ \E found \in CatalogSizes : Expand(found)
    \/ \E id \in StateIds : ExecuteAction(id)
    \/ \E target \in StateIds : ActionFails(target)

SpecExplorer == InitExplorer /\ [][NextExplorer]_vars

\* the engine is sequential and always runs its next step
FairExplorer == SpecExplorer /\ WF_vars(NextExplorer)

InitPrioritize == PrioritizeInit /\ StateManagerUnused /\ ExplorerUnused
    /\ DiscoveryUnused
    /\ ActionTypeUnused
    /\ GroupUnused
    /\ FormActionsUnused
    /\ ValidatorUnused
    /\ AdapterUnused
    /\ CompareUnused

NextPrioritize == PrioritizeActions

SpecPrioritize == InitPrioritize /\ [][NextPrioritize]_vars

InitDiscovery ==
    DiscoveryInit /\ StateManagerUnused /\ ExplorerUnused /\ PrioritizeUnused
    /\ ActionTypeUnused
    /\ GroupUnused
    /\ FormActionsUnused
    /\ ValidatorUnused
    /\ AdapterUnused
    /\ CompareUnused

NextDiscovery ==
    \E additionalIgnore \in AdditionalIgnores : DiscoverActions(additionalIgnore)

SpecDiscovery == InitDiscovery /\ [][NextDiscovery]_vars

\* the action catalog: discovery, then prioritization of what was discovered
NextCatalog ==
    \/ \E additionalIgnore \in AdditionalIgnores : DiscoverActions(additionalIgnore)
    \/ PrioritizeDiscovered

SpecCatalog == InitDiscovery /\ [][NextCatalog]_vars

InitActionType ==
    ActionTypeInit /\ StateManagerUnused /\ ExplorerUnused /\ PrioritizeUnused
    /\ DiscoveryUnused
    /\ GroupUnused
    /\ FormActionsUnused
    /\ ValidatorUnused
    /\ AdapterUnused
    /\ CompareUnused

NextActionType == GetActionType

SpecActionType == InitActionType /\ [][NextActionType]_vars

InitGroup ==
    GroupInit /\ StateManagerUnused /\ ExplorerUnused /\ PrioritizeUnused
    /\ DiscoveryUnused /\ ActionTypeUnused
    /\ FormActionsUnused
    /\ ValidatorUnused
    /\ AdapterUnused
    /\ CompareUnused

NextGroup == GroupActions

SpecGroup == InitGroup /\ [][NextGroup]_vars

InitFormActions ==
    FormActionsInit /\ StateManagerUnused /\ ExplorerUnused /\ PrioritizeUnused
    /\ DiscoveryUnused /\ ActionTypeUnused /\ GroupUnused
    /\ ValidatorUnused
    /\ AdapterUnused
    /\ CompareUnused

NextFormActions == GetFormActions

SpecFormActions == InitFormActions /\ [][NextFormActions]_vars

InitValidator ==
    ValidatorInit /\ StateManagerUnused /\ ExplorerUnused /\ PrioritizeUnused
    /\ DiscoveryUnused /\ ActionTypeUnused /\ GroupUnused /\ FormActionsUnused
    /\ AdapterUnused
    /\ CompareUnused

NextValidator == \E viewport \in Viewports : Validate(viewport)

SpecValidator == InitValidator /\ [][NextValidator]_vars

InitAdapter ==
    AdapterInit /\ StateManagerUnused /\ ExplorerUnused /\ PrioritizeUnused
    /\ DiscoveryUnused /\ ActionTypeUnused /\ GroupUnused /\ FormActionsUnused
    /\ ValidatorUnused
    /\ CompareUnused

NextAdapter ==
    \/ \E config \in AdapterConfigs, test \in ConnectionTests :
          ConnectSucceeds(config, test)
    \/ \E config \in AdapterConfigs, test \in ConnectionTests :
          ConnectFails(config, test)
    \/ Disconnect
    \/ \E action \in VerifyActions, answer \in Verifications : Verify(action, answer)
    \/ \E snapshot \in BackendSnapshots : AdapterCaptureState(snapshot)

SpecAdapter == InitAdapter /\ [][NextAdapter]_vars

InitCompare ==
    CompareInit /\ StateManagerUnused /\ ExplorerUnused /\ PrioritizeUnused
    /\ DiscoveryUnused /\ ActionTypeUnused /\ GroupUnused /\ FormActionsUnused
    /\ ValidatorUnused /\ AdapterUnused

NextCompare == CompareSnapshots

SpecCompare == InitCompare /\ [][NextCompare]_vars

----------------------------------------------------------------------------
(* C1: with the default identity, two computeStateId calls with the same   *)
(* {pathname, domFingerprint, modalOpen, viewport} return the same id,     *)
(* whatever captureState, clearCache and computeStateId calls were made    *)
(* between them.                                                           *)
C1_SameInputSameId ==
    ~smOptions.customIdentity =>
        \A c, d \in idLog : c.input = d.input => c.id = d.id

\* one input got the same id with an empty and with a non-empty cache, and
\* the cache has been cleared since
C1_Witness ==
    /\ ~smOptions.customIdentity
    /\ stateCache = EmptyMap
    /\ clock > 0
    /\ \E c, d \in idLog :
          c.input = d.input /\ c.cached = 0 /\ d.cached > 0 /\ c.id = d.id

----------------------------------------------------------------------------
(* C2: with the default identity, two computeStateId inputs that differ in *)
(* exactly one of pathname, domFingerprint, modalOpen and viewport get     *)
(* different ids.                                                          *)
IdentityFields == {"pathname", "domFingerprint", "modalOpen", "viewport"}

DifferInExactlyOne(a, b) ==
    Cardinality({f \in IdentityFields : a[f] # b[f]}) = 1

C2_OneChangeChangesId ==
    ~smOptions.customIdentity =>
        \A c, d \in idLog :
            DifferInExactlyOne(c.input, d.input) => c.id # d.id

\* C2 as amended: the ids differ when the one component that differs is not
\* empty (null or '') in both inputs.
C2_OneNonEmptyChangeChangesId ==
    ~smOptions.customIdentity =>
        \A c, d \in idLog :
            (/\ DifferInExactlyOne(c.input, d.input)
             /\ \E f \in IdentityFields :
                   OrEmpty(c.input[f]) # OrEmpty(d.input[f]))
                => c.id # d.id

\* two logged inputs differ in the viewport only, two in the overlay marker
\* only (null against a dialog)
C2_Witness ==
    /\ ~smOptions.customIdentity
    /\ \E c, d \in idLog :
          /\ DifferInExactlyOne(c.input, d.input)
          /\ \/ c.input.viewport # d.input.viewport
             \/ c.input.modalOpen = Null /\ d.input.modalOpen = JS("confirm-dialog")
          /\ c.id # d.id

----------------------------------------------------------------------------
(* C3: in a run with state cap N the graph never holds more than N nodes,  *)
(* also in the middle of an expansion.                                     *)
C3_NodeCountWithinCap == Cardinality(DOMAIN nodes) <= exConfig.maxStates

----------------------------------------------------------------------------
(* C4: no state id is expanded more than once, however many actions and    *)
(* paths lead to it.                                                       *)
C4_ExpandedAtMostOnce == \A id \in StateIds : expandCount[id] <= 1

\* a node that two different nodes have an edge to has been expanded, once
C4_Witness ==
    \E id \in DOMAIN nodes :
        /\ expandCount[id] = 1
        /\ \E e, f \in edges :
              /\ e.toId = id /\ f.toId = id
              /\ ~e.failed /\ ~f.failed
              /\ e.fromId # f.fromId

----------------------------------------------------------------------------
(* C5: every run reaches a terminal condition, for every depth cap and     *)
(* state cap and with no iteration cap to stop it, also when the expanded  *)
(* states have actions that lead back to visited states.                   *)
C5_Terminates == <>(pc = "done")

\* the run has ended; it had no iteration cap, expanded two nodes or more,
\* and every expanded node with an outgoing edge has one to a node that is
\* not deeper than itself
C5_Witness ==
    /\ pc = "done"
    /\ exConfig.iterationCap = 0
    /\ Cardinality({id \in StateIds : expandCount[id] > 0}) >= 2
    /\ \A id \in DOMAIN nodes :
          (\E e \in edges : e.fromId = id) =>
              \E e \in edges :
                  /\ e.fromId = id /\ ~e.failed
                  /\ nodes[e.toId] <= nodes[id]

----------------------------------------------------------------------------
(* C6: an executed action that yields an id not in the graph adds exactly  *)
(* one node, at the depth of the expanded node plus one, and one edge from *)
(* the expanded node; one that yields an id in the graph adds only an edge *)
(* to the existing node and leaves the nodes and their depths unchanged.   *)
C6_Step ==
    (pc = "expanding" /\ lastResult'.kind = "state") =>
        LET id == lastResult'.id
            added == edges' \ edges
        IN /\ added = {okEdge(cur, Head(pending), id)}
           /\ id \notin DOMAIN nodes =>
                 /\ DOMAIN nodes' = DOMAIN nodes \cup {id}
                 /\ nodes'[id] = nodes[cur] + 1
                 /\ \A n \in DOMAIN nodes : nodes'[n] = nodes[n]
           /\ id \in DOMAIN nodes => nodes' = nodes

C6_NodeAndEdgePerAction == [][C6_Step]_vars

\* a node at depth 1 has an edge to a start node, and the start node is
\* still at depth 0 ("Home" link found on /settings)
C6_Witness ==
    \E e \in edges :
        /\ ~e.failed
        /\ nodes[e.fromId] = 1
        /\ nodes[e.toId] = 0
        /\ \E f \in edges : f.fromId = e.toId /\ f.toId = e.fromId /\ ~f.failed

----------------------------------------------------------------------------
----------------------------------------------------------------------------
(* C8: when the input holds a non-destructive action labelled "Submit" and *)
(* a destructive action labelled "Delete", prioritizeActions puts every    *)
(* such "Submit" at a lower index than every such "Delete", whatever their *)
(* tag names and z-index values.                                           *)
C8_SubmitBeforeDelete ==
    prCalled =>
        \A i, j \in 1..Len(prOutput) :
            (/\ prOutput[i].label = "Submit" /\ ~prOutput[i].destructive
             /\ prOutput[j].label = "Delete" /\ prOutput[j].destructive)
                => i < j

----------------------------------------------------------------------------
(* C9: an interactive element with a disabled marker (disabled attribute   *)
(* or aria-disabled="true") is not in the output of discoverActions when   *)
(* includeDisabled is false; when includeDisabled is set and the element   *)
(* passes the other filters (not ignored, visible, in the viewport, large  *)
(* enough, not a duplicate, cap not reached) it is in the output.          *)

\* the selector without its :not([disabled]) and :not([aria-disabled="true"])
withoutDisabledClauses(sel) ==
    [sel EXCEPT !.notHas = @ \ {"disabled"},
                !.notEq = @ \ {<<"aria-disabled", "true">>}]

\* an element of a kind the interactive selectors look for
interactiveKind(el, selectors) ==
    \E k \in 1..Len(selectors) : matches(el, withoutDisabledClauses(selectors[k]))

passesOtherFilters(page, i, ignore, options) ==
    /\ ~shouldIgnore(page, i, ignore)
    /\ isVisible(page[i]) /\ isInViewport(page[i])
    /\ page[i].box.width >= options.minClickableSize
    /\ page[i].box.height >= options.minClickableSize
    /\ \A j \in 1..Len(page) : j # i => getSelector(page, j) # getSelector(page, i)

C9_DisabledOnlyOnRequest ==
    \A k \in 1..Len(adLog) :
        LET out == adLog[k].output
            ignore == adOptions.ignoreSelectors \o adLog[k].additionalIgnore
        IN \A i \in 1..Len(adPage) :
              (/\ isDisabled(adPage[i])
               /\ interactiveKind(adPage[i], adOptions.interactiveSelectors))
                 => /\ ~adOptions.includeDisabled =>
                          ~\E n \in 1..Len(out) : out[n].el = i
                    /\ (/\ adOptions.includeDisabled
                        /\ passesOtherFilters(adPage, i, ignore, adOptions)
                        /\ Len(out) < adOptions.maxActions)
                          => \E n \in 1..Len(out) : out[n].el = i

----------------------------------------------------------------------------
(* C10: the ignore selectors of a discoverActions call are the instance's  *)
(* ignoreSelectors and that call's additionalIgnore, no more and no less:  *)
(* no action of the output is made from an element that one of them        *)
(* matches, itself or an ancestor; an element that passes the other        *)
(* filters and that none of them matches is in the output; and what an     *)
(* earlier call found is found again by a later call whose selectors do    *)
(* not match it (cap not reached).                                         *)

eligible(page, i, options) ==
    /\ matchesAny(page[i], options.interactiveSelectors)
    /\ options.includeDisabled \/ ~isDisabled(page[i])
    /\ isVisible(page[i]) /\ isInViewport(page[i])
    /\ page[i].box.width >= options.minClickableSize
    /\ page[i].box.height >= options.minClickableSize

hasSelector(out, selector) == \E n \in 1..Len(out) : out[n].selector = selector

C10_IgnorePerCall ==
    \A k \in 1..Len(adLog) :
        LET out == adLog[k].output
            applied == adOptions.ignoreSelectors \o adLog[k].additionalIgnore
        IN /\ \A n \in 1..Len(out) : ~shouldIgnore(adPage, out[n].el, applied)
           /\ Len(out) < adOptions.maxActions =>
                 /\ \A i \in 1..Len(adPage) :
                       (eligible(adPage, i, adOptions)
                        /\ ~shouldIgnore(adPage, i, applied))
                          => hasSelector(out, getSelector(adPage, i))
                 /\ \A j \in 1..(k - 1) :
                       \A n \in 1..Len(adLog[j].output) :
                          ~shouldIgnore(adPage, adLog[j].output[n].el, applied)
                             => hasSelector(out, adLog[j].output[n].selector)

\* the Logout link inside the user menu is absent from a call that ignores
\* ".user-menu" and is found by the next call, made without additional
\* selectors
C10_Witness ==
    \E k, l \in 1..Len(adLog) :
        /\ k < l
        /\ adLog[k].additionalIgnore = <<Sel("*", {}, {<<"class", "user-menu">>}, {}, {})>>
        /\ adLog[l].additionalIgnore = <<>>
        /\ \E i \in 1..Len(adPage) :
              /\ adPage[i].text = "Logout"
              /\ adPage[i].parent # 0
              /\ ~hasSelector(adLog[k].output, "#logout-btn")
              /\ \E n \in 1..Len(adLog[l].output) : adLog[l].output[n].el = i

----------------------------------------------------------------------------
(* C11: two discoverActions calls against the same unchanged page, made    *)
(* with the same options, return the same selector string for the same     *)
(* element, whatever additional ignore selectors the calls were given.     *)
C11_SelectorStable ==
    \A j, k \in 1..Len(adLog) :
        \A m \in 1..Len(adLog[j].output), n \in 1..Len(adLog[k].output) :
            adLog[j].output[m].el = adLog[k].output[n].el
                => adLog[j].output[m].selector = adLog[k].output[n].selector

\* one element is returned by two calls that return lists of different
\* lengths, at different ranks
C11_Witness ==
    \E j, k \in 1..Len(adLog) :
        /\ j < k
        /\ Len(adLog[j].output) # Len(adLog[k].output)
        /\ \E m \in 1..Len(adLog[j].output), n \in 1..Len(adLog[k].output) :
              /\ m # n
              /\ adLog[j].output[m].el = adLog[k].output[n].el
              /\ adLog[j].output[m].selector = adLog[k].output[n].selector

----------------------------------------------------------------------------
(* C12: for any page and any configured maxActions >= 1, discoverActions   *)
(* returns at most maxActions actions.                                     *)
C12_AtMostMaxActions ==
    \A k \in 1..Len(adLog) : Len(adLog[k].output) <= adOptions.maxActions

\* a call on a page with two elements that pass every filter of the call
\* returned exactly maxActions = 1 action
C12_Witness ==
    /\ adOptions.maxActions = 1
    /\ \E k \in 1..Len(adLog) :
          /\ Len(adLog[k].output) = 1
          /\ Cardinality({i \in 1..Len(adPage) :
                /\ eligible(adPage, i, adOptions)
                /\ ~shouldIgnore(adPage, i,
                       adOptions.ignoreSelectors \o adLog[k].additionalIgnore)}) = 2

----------------------------------------------------------------------------
(* C13: for every discovered element the action kind is: check if its role *)
(* or input type is checkbox or radio; upload if it is a file input; fill  *)
(* if it is a text-like input or a textarea; select if it is a select or   *)
(* has role combobox or listbox; click in every other case, inputs of type *)
(* submit, button, image, range or reset included.                         *)
TextLikeTypes == {"text", "email"}

statedKind(el) ==
    LET type == getAttribute(el, "type")
        role == getAttribute(el, "role")
    IN IF \/ role \in {JS("checkbox"), JS("radio")}
          \/ el.tag = "input" /\ type \in {JS("checkbox"), JS("radio")}
           THEN "check"
       ELSE IF el.tag = "input" /\ type = JS("file") THEN "upload"
       ELSE IF \/ el.tag = "input" /\ (type = Null \/ OrEmpty(type) \in TextLikeTypes)
               \/ el.tag = "textarea"
           THEN "fill"
       ELSE IF el.tag = "select" \/ role \in {JS("combobox"), JS("listbox")}
           THEN "select"
       ELSE "click"

C13_KindAsStated == atKind # Null => atKind = JS(statedKind(atEl))

----------------------------------------------------------------------------
(* C14: groupActions partitions its input: every input action appears in   *)
(* exactly one of the five groups navigation, form, modal, destructive and *)
(* other, the groups hold nothing else, and every action with destructive  *)
(* = true is in the destructive group whatever its tag name or selector.   *)
occurrences(list, x) == Cardinality({n \in 1..Len(list) : list[n] = x})

C14_GroupsPartition ==
    grCalled =>
        /\ DOMAIN grGroups = GroupNames
        /\ \A i \in 1..Len(grInput) :
              \E g \in GroupNames :
                  /\ occurrences(grGroups[g], grInput[i])
                         = occurrences(grInput, grInput[i])
                  /\ \A h \in GroupNames \ {g} :
                         occurrences(grGroups[h], grInput[i]) = 0
        /\ \A g \in GroupNames : \A n \in 1..Len(grGroups[g]) :
              occurrences(grInput, grGroups[g][n]) > 0
        /\ \A i \in 1..Len(grInput) :
              grInput[i].destructive
                  => occurrences(grGroups["destructive"], grInput[i]) > 0

\* a destructive link with a menu selector was grouped next to a
\* non-destructive action
C14_Witness ==
    /\ grCalled
    /\ \E n \in 1..Len(grGroups["destructive"]) :
          /\ grGroups["destructive"][n].tagName = "a"
          /\ grGroups["destructive"][n].selector = "#Main-Menu"
    /\ \E g \in GroupNames \ {"destructive"} : grGroups[g] # <<>>

----------------------------------------------------------------------------
(* C15: getFormActions returns one synthesized submit action for each      *)
(* visible form that lacks a submit control, and none for forms whose      *)
(* submit control is otherwise discovered.                                 *)
lacksSubmit(form) == \A n \in 1..Len(form.controls) : ~isSubmitControl(form.controls[n])

C15_ActionPerFormWithoutSubmit ==
    faCalled =>
        /\ \A i \in 1..Len(faForms) :
              faForms[i].visible /\ lacksSubmit(faForms[i])
                  => Cardinality({n \in 1..Len(faOutput) : faOutput[n].form = i}) = 1
        /\ \A n \in 1..Len(faOutput) : lacksSubmit(faForms[faOutput[n].form])

(* C15 as the code has it: getFormActions returns one click action for     *)
(* each visible form that contains a submit control, aimed at the first    *)
(* such control of the form and labelled "Submit form: ...", in document    *)
(* order, and none for hidden forms and for forms without a submit control. *)
C15_ActionPerFormWithSubmit ==
    faCalled =>
        /\ \A i \in 1..Len(faForms) :
              Cardinality({n \in 1..Len(faOutput) : faOutput[n].form = i})
                  = IF faForms[i].visible /\ ~lacksSubmit(faForms[i]) THEN 1 ELSE 0
        /\ \A n \in 1..Len(faOutput) :
              LET form == faForms[faOutput[n].form]
                  firstAt == CHOOSE k \in 1..Len(form.controls) :
                              /\ isSubmitControl(form.controls[k])
                              /\ \A j \in 1..(k - 1) : ~isSubmitControl(form.controls[j])
              IN /\ faOutput[n].type = "click"
                 /\ faOutput[n].selector = getLocatorSelector(form.controls[firstAt])
                 /\ SubSeq(faOutput[n].label, 1, 13) = "Submit form: "
        /\ \A m, n \in 1..Len(faOutput) : m < n => faOutput[m].form < faOutput[n].form

\* the page held a visible form without a submit control, a hidden form
\* with one, or both, next to a visible form with a submit control that
\* got its action
C15_Witness ==
    /\ faCalled
    /\ Len(faOutput) = 1
    /\ Len(faForms) = 2
    /\ \E i \in 1..Len(faForms) :
          \/ faForms[i].visible /\ lacksSubmit(faForms[i])
          \/ ~faForms[i].visible /\ ~lacksSubmit(faForms[i])

----------------------------------------------------------------------------
(* C16: after any sequence of captureState, computeStateId, getState,      *)
(* getAllStates, getStats and clearCache calls, getState(id) is defined    *)
(* for every id a captureState returned since the last clearCache; only    *)
(* clearCache removes entries from the cache, and after clearCache the     *)
(* cache is empty.                                                         *)
C16_Step ==
    /\ (\E id \in DOMAIN stateCache : id \notin DOMAIN stateCache')
           => ClearCache
    /\ ClearCache => getAllStates(stateCache') = {}

C16_CapturedStaysCached ==
    /\ [](/\ \A id \in captured : getState(stateCache, id) # Undefined
          /\ lookup.op = "getState" /\ lookup.id \in captured
                 => lookup.value # Undefined /\ lookup.value.id = lookup.id)
    /\ [][C16_Step]_vars

\* two different states were captured, a query found the first of them
\* after the second capture, and the cache had been cleared before
C16_Witness ==
    /\ clock > Cardinality(captured)
    /\ Cardinality(captured) = 2
    /\ lookup.op = "getState"
    /\ lookup.value # Undefined
    /\ \E id \in captured : stateCache[id].timestamp > lookup.value.timestamp

----------------------------------------------------------------------------
(* C17: AccessibilityValidator.validate never throws: when building or     *)
(* running the scan raises an exception, it returns a result holding a     *)
(* moderate-severity issue with rule scan-error that describes the         *)
(* failure.                                                                *)
C17_ScanErrorBecomesIssue ==
    avResult # NotValidated =>
        /\ ~avResult.threw
        /\ avResult.validator = "accessibility"
        /\ avConfig.enabled /\ avScan.kind \in {"build-throws", "analyze-throws"}
               => \E n \in 1..Len(avResult.issues) :
                      /\ avResult.issues[n].rule = "scan-error"
                      /\ avResult.issues[n].severity = "moderate"
                      /\ includes(avResult.issues[n].description,
                                  avScan.error.message)

\* validate returned after the builder could not be built
C17_Witness ==
    /\ avResult # NotValidated
    /\ avConfig.enabled
    /\ avScan.kind = "build-throws"
    /\ Len(avResult.issues) = 1

----------------------------------------------------------------------------
(* C18: after any sequence of connect (successful or failing) and          *)
(* disconnect calls on a SupabaseAdapter, whenever isConnected() is false, *)
(* verify returns a result with passed = false and a 'not connected'       *)
(* message and captureState rejects with a 'not connected' error;          *)
(* isConnected() is true exactly after a successful connect not followed   *)
(* by disconnect.                                                          *)
C18_NotConnectedIsRefused ==
    /\ saConnected = saArmed
    /\ saLast.op = "verify" /\ ~saLast.connected
           => /\ ~saLast.result.passed
              /\ includes(saLast.result.message, "not connected")
    /\ saLast.op = "captureState" /\ ~saLast.connected
           => /\ saLast.rejected
              /\ includes(saLast.message, "not connected")

----------------------------------------------------------------------------
(* C19: every issue validate returns has a severity at or above the        *)
(* configured minSeverity, in the order critical > serious > moderate >    *)
(* minor, whether it was built from a violation, from an incomplete check  *)
(* or from a scan error.                                                   *)
C19_IssuesAtOrAboveMinSeverity ==
    \A n \in 1..Len(avResult.issues) :
        indexOf(SEVERITY_ORDER, avResult.issues[n].severity)
            <= indexOf(SEVERITY_ORDER, avConfig.minSeverity)

----------------------------------------------------------------------------
(* C20: compareSnapshots(before, after) has an entry for table t exactly   *)
(* when the row counts of t in before and after differ, a table absent     *)
(* from a snapshot counting as 0; the entry's diff equals after minus      *)
(* before; so compareSnapshots(s, s) is empty and compareSnapshots(b, a)   *)
(* has the same tables as compareSnapshots(a, b) with negated diff.        *)
countIn(snapshot, table) ==
    IF table \in DOMAIN snapshot.tables THEN snapshot.tables[table].rowCount ELSE 0

C20_DiffOfRowCounts ==
    csCalled =>
        /\ \A t \in TableNames :
              t \in DOMAIN csDiff <=> countIn(csBefore, t) # countIn(csAfter, t)
        /\ \A t \in DOMAIN csDiff :
              /\ csDiff[t].before = countIn(csBefore, t)
              /\ csDiff[t].after = countIn(csAfter, t)
              /\ csDiff[t].diff = countIn(csAfter, t) - countIn(csBefore, t)
        /\ csBefore = csAfter => DOMAIN csDiff = {}
        /\ LET reversed == compareSnapshots(csAfter, csBefore)
           IN /\ DOMAIN reversed = DOMAIN csDiff
              /\ \A t \in DOMAIN csDiff : reversed[t].diff = 0 - csDiff[t].diff

\* a table held by the after snapshot only got an entry while a table with
\* equal counts got none
C20_Witness ==
    /\ csCalled
    /\ \E t \in DOMAIN csDiff :
          /\ t \notin DOMAIN csBefore.tables
          /\ csDiff[t].diff > 0
    /\ \E t \in DOMAIN csBefore.tables \cap DOMAIN csAfter.tables :
          t \notin DOMAIN csDiff

----------------------------------------------------------------------------
(* C21: an action that times out or fails on its element during an         *)
(* expansion adds one failed edge from the expanded node, leaves the nodes, *)
(* their depths, the frontier and every edge already in the graph as they  *)
(* were, does not end the run, and leaves the remaining selected actions   *)
(* of the node to be executed next; no step of a run removes a node or an  *)
(* edge.                                                                   *)
C21_Step ==
    /\ DOMAIN nodes \subseteq DOMAIN nodes'
    /\ edges \subseteq edges'
    /\ (pc = "expanding" /\ lastResult'.kind = "failed") =>
          /\ \E e \in edges' \ edges :
                /\ edges' = edges \cup {e}
                /\ e.failed /\ e.fromId = cur /\ e.action = Head(pending)
          /\ nodes' = nodes
          /\ frontier' = frontier
          /\ pending' = Tail(pending)
          /\ pc' # "done"
          /\ pending' # <<>> => pc' = "expanding" /\ cur' = cur
          /\ pending' = <<>> => pc' = "idle"

C21_FailureDoesNotStopExpansion == [][C21_Step]_vars

\* after a failed action and a later successful action of the same node the
\* graph holds both edges, and a node is still waiting in the frontier
C21_Witness ==
    /\ frontier # <<>>
    /\ \E e, f \in edges :
          /\ e.failed /\ ~f.failed
          /\ e.fromId = f.fromId
          /\ e.action < f.action
          /\ f.toId \in {frontier[i] : i \in 1..Len(frontier)}

----------------------------------------------------------------------------
(* C22: the pathname captureState records is the URL path, followed by the *)
(* query string exactly when includeQueryParams is set and the URL has     *)
(* one, followed by the hash exactly when includeHash is set and the URL   *)
(* has one; includeQueryParams defaults to true and includeHash to false;  *)
(* with includeQueryParams false a capture of a URL that differs only in   *)
(* its query from the URL of a cached state with the same fingerprint,     *)
(* overlay and viewport gets the pathname and the id of that state.        *)
urlOf(href) == CHOOSE u \in CaptureUrls : Href(u) = href

C22_Recorded ==
    \A id \in DOMAIN stateCache :
        LET state == stateCache[id]
            u == urlOf(state.url)
        IN state.pathname =
               u.pathname
                   \o (IF smOptions.includeQueryParams THEN u.search ELSE "")
                   \o (IF smOptions.includeHash THEN u.hash ELSE "")

C22_Step ==
    clock' = clock + 1 =>
        \A new \in getAllStates(stateCache'), old \in getAllStates(stateCache) :
            (/\ new.timestamp = clock
             /\ ~smOptions.includeQueryParams
             /\ urlOf(new.url).search # urlOf(old.url).search
             /\ urlOf(new.url).pathname = urlOf(old.url).pathname
             /\ urlOf(new.url).hash = urlOf(old.url).hash
             /\ new.domFingerprint = old.domFingerprint
             /\ new.modalOpen = old.modalOpen
             /\ new.viewport = old.viewport)
                => new.pathname = old.pathname /\ new.id = old.id

C22_PathnameAsConfigured ==
    /\ mergeOptions(EmptyMap).includeQueryParams
    /\ ~mergeOptions(EmptyMap).includeHash
    /\ []C22_Recorded
    /\ [][C22_Step]_vars

\* with includeQueryParams false and includeHash true, a URL with a query
\* and a hash was captured after one that differs from it in the query
\* only: one state is cached, the later one, its pathname path and hash
C22_Witness ==
    /\ ~smOptions.includeQueryParams /\ smOptions.includeHash
    /\ clock = 2
    /\ Cardinality(DOMAIN stateCache) = 1
    /\ \E id \in DOMAIN stateCache :
          /\ stateCache[id].timestamp = 1
          /\ stateCache[id].url = "http://localhost:3000/dashboard?tab=overview#section1"
          /\ stateCache[id].pathname = "/dashboard#section1"
    /\ \E c \in idLog : c.cached = 0 /\ c.input.pathname = JS("/dashboard#section1")

----------------------------------------------------------------------------
\* the stated score, in hundredths
statedScore(action) ==
    LET label == toLowerCase(action.label)
        has(word) == includes(label, word)
    IN (IF action.tagName \in {"button", "a"} THEN 1000 ELSE 0)
       + (IF action.tagName \in {"input", "select", "textarea"} THEN 500 ELSE 0)
       + (IF has("nav") THEN 800 ELSE 0)
       + (IF has("submit") \/ has("save") \/ has("create") \/ has("add")
          THEN 1500 ELSE 0)
       + (IF action.destructive THEN 0 - 500 ELSE 0)
       + action.zIndex

\* the stated score of every position of a list
RECURSIVE scoresOf(_)
scoresOf(actions) ==
    IF actions = <<>> THEN <<>>
    ELSE <<statedScore(Head(actions))>> \o scoresOf(Tail(actions))

\* the actions of a list whose score is v, in the order of the list
withScore(actions, scores, v) ==
    LET at == {i \in 1..Len(actions) : scores[i] = v}
    IN [k \in 1..Cardinality(at) |->
           actions[CHOOSE i \in at : Cardinality({j \in at : j < i}) = k - 1]]

(* C23: prioritizeActions returns its input ordered by descending score,   *)
(* the score being 10 for tag button or a, plus 5 for tag input, select or *)
(* textarea, plus 8 for a label containing "nav", plus 15 for a label      *)
(* matching submit|save|create|add, minus 5 when destructive, plus         *)
(* zIndex/100 (labels compared without regard to case); actions with equal *)
(* score keep their relative input order.                                  *)
C23_DescendingStable ==
    prCalled =>
        LET given == scoresOf(prInput)
            returned == scoresOf(prOutput)
        IN /\ Len(prOutput) = Len(prInput)
           /\ \A i \in 1..(Len(prOutput) - 1) : returned[i] >= returned[i + 1]
           /\ \A v \in {given[i] : i \in 1..Len(prInput)}
                         \cup {returned[i] : i \in 1..Len(prOutput)} :
                 withScore(prOutput, returned, v) = withScore(prInput, given, v)

\* two different actions of equal score came out in their input order
C23_Witness ==
    /\ prCalled
    /\ Len(prInput) = 2
    /\ prInput[1] # prInput[2]
    /\ statedScore(prInput[1]) = statedScore(prInput[2])
    /\ prOutput = prInput

\* the elements that pass every filter of a call, one per selector
qualifying(page, ignore, options) ==
    {i \in 1..Len(page) :
        /\ eligible(page, i, options)
        /\ ~shouldIgnore(page, i, ignore)
        /\ \A j \in 1..(i - 1) :
              (eligible(page, j, options) /\ ~shouldIgnore(page, j, ignore))
                  => getSelector(page, j) # getSelector(page, i)}

\* the first n of them in document order
firstInDocument(elements, n) ==
    {i \in elements : Cardinality({j \in elements : j < i}) < n}

----------------------------------------------------------------------------
(* C24: destructiveness never removes an action. prioritizeActions returns *)
(* its input rearranged, every action as often as the input holds it,      *)
(* destructive ones included, and leaves the array it was handed as it     *)
(* was; discoverActions returns an action for every element that passes    *)
(* its filters within the cap, destructive or not.                         *)
C24_Discovered ==
    adLog # <<>> =>
        LET call == adLog[Len(adLog)]   \* each call is the last one as it ends
            out == call.output
            applied == adOptions.ignoreSelectors \o call.additionalIgnore
            kept == firstInDocument(qualifying(adPage, applied, adOptions),
                                    adOptions.maxActions)
        IN \A i \in kept :
              \E n \in 1..Len(out) :
                  /\ out[n].el = i
                  /\ out[n].destructive
                         = isDestructive(adPage[i], getLabel(adPage[i]))

C24_Prioritized ==
    prCalled =>
        /\ Len(prOutput) = Len(prInput)
        /\ \A n \in 1..Len(prInput) :
              occurrences(prOutput, prInput[n]) = occurrences(prInput, prInput[n])

C24_Step ==
    (~prCalled /\ prCalled') => prInput' = adLog[Len(adLog)].output

C24_DestructiveKept ==
    /\ [](C24_Discovered /\ C24_Prioritized)
    /\ [][C24_Step]_vars

\* a destructive element was discovered next to a non-destructive one, and
\* prioritizeActions returned both, the destructive one last
C24_Witness ==
    /\ prCalled
    /\ Len(prInput) = 2
    /\ Len(prOutput) = 2
    /\ ~prOutput[1].destructive
    /\ prOutput[2].destructive
    /\ prOutput[2] = prInput[1]
    /\ isDestructive(adPage[prOutput[2].el], prOutput[2].label)

----------------------------------------------------------------------------
(* C25: with the default identity two captured states that agree on        *)
(* pathname, domFingerprint, modalOpen and viewport have the same id,      *)
(* whatever their url, title, form snapshot, backend snapshot and          *)
(* timestamp are.                                                          *)
sameIdentity(a, b) ==
    /\ a.pathname = b.pathname
    /\ a.domFingerprint = b.domFingerprint
    /\ a.modalOpen = b.modalOpen
    /\ a.viewport = b.viewport

C25_Cached ==
    ~smOptions.customIdentity =>
        \A a, b \in getAllStates(stateCache) : sameIdentity(a, b) => a.id = b.id

C25_Step ==
    (~smOptions.customIdentity /\ clock' = clock + 1) =>
        \A new \in getAllStates(stateCache'), old \in getAllStates(stateCache) :
            (new.timestamp = clock /\ sameIdentity(new, old)) => new.id = old.id

C25_IdIgnoresOtherFields == []C25_Cached /\ [][C25_Step]_vars

\* with includeQueryParams false two captures got the same id, the later
\* one of a URL with a query, a page with a form and a backend snapshot
C25_Witness ==
    /\ ~smOptions.customIdentity /\ ~smOptions.includeQueryParams
    /\ clock = 2
    /\ \E c, d \in idLog : c.cached = 0 /\ d.cached = 1 /\ c.id = d.id
    /\ \E id \in DOMAIN stateCache :
          /\ DOMAIN stateCache = {id}
          /\ stateCache[id].timestamp = 1
          /\ urlOf(stateCache[id].url).search # ""
          /\ stateCache[id].title = "Dashboard - My App"
          /\ stateCache[id].formState # Undefined
          /\ stateCache[id].dbSnapshot # Undefined

----------------------------------------------------------------------------
(* C26: at every point of a run the depth stored on a node is the length   *)
(* of the shortest path of executed actions recorded in the graph from a   *)
(* root (a node of depth 0) to it: no node is reachable by a path shorter  *)
(* than the depth it was created at.                                       *)

\* the nodes that paths of at most k successful actions lead to from a root
RECURSIVE reachedWithin(_)
reachedWithin(k) ==
    IF k = 0 THEN {n \in DOMAIN nodes : nodes[n] = 0}
    ELSE LET near == reachedWithin(k - 1)
         IN near \cup {e.toId : e \in {f \in edges : ~f.failed /\ f.fromId \in near}}

----------------------------------------------------------------------------
(* C27: getFormActions returns at most one action per form of the page: a  *)
(* click on the first submit control, labelled "Submit form: ...", for     *)
(* each visible form that contains a submit control, and no action for a   *)
(* hidden form or for a form without a submit control.                     *)

\* the indexes of the submit controls of a form
submitControls(form) ==
    {k \in 1..Len(form.controls) : isSubmitControl(form.controls[k])}

actionsFor(i) == {n \in 1..Len(faOutput) : faOutput[n].form = i}

C27_OneClickPerSubmittableForm ==
    faCalled =>
        /\ Len(faOutput) <= Len(faForms)
        /\ \A i \in 1..Len(faForms) :
              LET form == faForms[i]
                  found == submitControls(form)
              IN /\ Cardinality(actionsFor(i)) <= 1
                 /\ ~form.visible => actionsFor(i) = {}
                 /\ found = {} => actionsFor(i) = {}
                 /\ (form.visible /\ found # {}) =>
                       \E n \in actionsFor(i) :
                           LET target ==
                                   form.controls[CHOOSE k \in found :
                                                    \A j \in found : k <= j]
                               label == faOutput[n].label
                           IN /\ faOutput[n].type = "click"
                              /\ faOutput[n].selector = getLocatorSelector(target)
                              /\ Len(label) > 13
                              /\ SubSeq(label, 1, 13) = "Submit form: "
                              /\ SubSeq(label, 14, Len(label)) = submitLabel(target)

\* a visible form with two submit controls of different selectors got one
\* action, on the first of them, and a hidden form with a submit control
\* got none
C27_Witness ==
    /\ faCalled
    /\ Len(faOutput) = 1
    /\ \E i, h \in 1..Len(faForms) :
          /\ ~faForms[h].visible /\ submitControls(faForms[h]) # {}
          /\ faForms[i].visible
          /\ submitControls(faForms[i]) = {1, 2}
          /\ getLocatorSelector(faForms[i].controls[1])
                 # getLocatorSelector(faForms[i].controls[2])
          /\ faOutput[1].selector = getLocatorSelector(faForms[i].controls[1])

----------------------------------------------------------------------------
(* C28: once captureState has cached a snapshot under an id, getState(id)  *)
(* returns that same snapshot, with the same title, form snapshot, backend *)
(* snapshot and timestamp, after every later call, until clearCache is     *)
(* called.                                                                 *)
C28_Step ==
    ~ClearCache =>
        \A id \in DOMAIN stateCache : getState(stateCache', id) = stateCache[id]

C28_SnapshotKept == [][C28_Step]_vars

----------------------------------------------------------------------------
(* C29: a verification that could not be performed never passes: verify    *)
(* does not return passed = true for rowNotExists when the row lookup was  *)
(* answered with a database error, nor for rlsAllows when no anon client   *)
(* is configured.                                                          *)
C29_UnperformedNeverPasses ==
    saLast.op = "verify" =>
        /\ (saLast.action = "rowNotExists" /\ saLast.answer.kind = "error")
               => ~saLast.result.passed
        /\ (saLast.action = "rlsAllows" /\ saLast.anonClient = Null)
               => ~saLast.result.passed

----------------------------------------------------------------------------
(* C30: discoverActions keeps the first maxActions qualifying elements in  *)
(* document order and sorts only these: the actions returned are made from *)
(* exactly those elements, in descending z-index, and a qualifying element *)
(* later in the document is left out also when its z-index is the highest  *)
(* or prioritizeActions would rank it first.                               *)

C30_CapBeforeOrdering ==
    \A k \in 1..Len(adLog) :
        LET out == adLog[k].output
            applied == adOptions.ignoreSelectors \o adLog[k].additionalIgnore
            kept == firstInDocument(qualifying(adPage, applied, adOptions),
                                    adOptions.maxActions)
        IN /\ {out[n].el : n \in 1..Len(out)} = kept
           /\ Len(out) = Cardinality(kept)
           /\ \A m, n \in 1..Len(out) : m < n => out[m].zIndex >= out[n].zIndex

\* with maxActions = 1 a call left out a qualifying element that comes
\* later in the document than the one it returned, has a higher z-index
\* and a higher priority
C30_Witness ==
    /\ adOptions.maxActions = 1
    /\ \E k \in 1..Len(adLog) :
          LET out == adLog[k].output
              applied == adOptions.ignoreSelectors \o adLog[k].additionalIgnore
          IN /\ Len(out) = 1
             /\ \E i \in qualifying(adPage, applied, adOptions) :
                   /\ i > out[1].el
                   /\ getZIndex(adPage, i) > out[1].zIndex
                   /\ getPriority(discoveredAction(adPage, i)) > getPriority(out[1])

====
